---- MODULE Spec2Model ----
(***************************************************************************)
(* Resource handlers of terraform-provider-azurerm: the IoT Hub            *)
(* ServiceBus-queue endpoint and the NIC <-> NSG association (handlers     *)
(* that read-modify-write a shared parent under a named lock), and the     *)
(* stand-alone CRUD handlers (SQL firewall rule, SQL failover group, Data  *)
(* Factory blob dataset, ExpressRoute gateway, DevTest policy, Storage     *)
(* Sync, Automation variable, portal Dashboard).                           *)
(*                                                                         *)
(* A handler invocation is a frame h[p]; it advances one remote call (or   *)
(* one lock acquisition) per step, so that concurrent invocations          *)
(* interleave at exactly the points where the Go code can be preempted     *)
(* with an observable effect.                                              *)
(***************************************************************************)
EXTENDS Integers, Sequences, FiniteSets, TLC

VARIABLES
    kind,     \* the resource type whose handlers run in this behaviour
    hub,      \* the remote IoT Hub (devices.IotHubDescription)
    nic,      \* the remote network interface (network.Interface)
    store,    \* the remote objects of a stand-alone resource type, by name
    lock,     \* locks.ByName: lock key -> holder
    h,        \* per goroutine: the frame of the handler it runs
    created,  \* ghost: endpoint names whose Create returned success
    calls     \* ghost: handler invocations started so far

vars == <<kind, hub, nic, store, lock, h, created, calls>>

----------------------------------------------------------------------------
(* Bounds and universes *)

MaxCalls == 2

Procs == {"p1", "p2"}
None == "none"

HubName == "h1"
EpNames == {"a", "A", "b"}
InitConn == "c0"
Conn(p) == IF p = "p1" THEN "c1" ELSE "c2"

NicName == "n1"
NsgNames == {"g1", "g2"}

IothubResourceName == "azurerm_iothub"
networkInterfaceResourceName == "azurerm_network_interface"
networkSecurityGroupResourceName == "azurerm_network_security_group"

HubKey == <<HubName, IothubResourceName>>
NicKey == <<NicName, networkInterfaceResourceName>>
NsgKey(g) == <<g, networkSecurityGroupResourceName>>
LockNames == {HubName, NicName, ""} \cup EpNames \cup NsgNames
LockTypes == {IothubResourceName, networkInterfaceResourceName,
              networkSecurityGroupResourceName}
LockKeys == LockNames \X LockTypes

----------------------------------------------------------------------------
(* Strings and resource IDs.  An ID is the sequence of its path segments;  *)
(* the empty sequence is the empty string.                                 *)

Lower(s) == IF s = "A" THEN "a" ELSE s
EqualFold(s, t) == Lower(s) = Lower(t)

NoId == <<>>
HubId == <<"IotHubs", HubName>>
\* a variant that folds the case of the endpoint name
EndpointIdFolded(hubId, endpointName) == hubId \o <<"Endpoints", Lower(endpointName)>>
\* fmt.Sprintf("%s/Endpoints/%s", *iothub.ID, endpointName)
EndpointId(hubId, endpointName) == hubId \o <<"Endpoints", endpointName>>
BadId == <<"garbage">>
NicId == <<"networkInterfaces", NicName>>
NsgId(g) == <<"networkSecurityGroups", g>>
NsgIds == {NsgId(g) : g \in NsgNames}
\* fmt.Sprintf("%s|%s", networkInterfaceId, networkSecurityGroupId)
AssociationId(networkInterfaceId, networkSecurityGroupId) ==
    networkInterfaceId \o <<"|">> \o networkSecurityGroupId

\* azure.ParseAzureResourceID: key/value segments; an odd number of segments
\* (or none) is an error.
ParseOk(id) == Len(id) > 0 /\ Len(id) % 2 = 0
PathOf(id, key) ==
    IF \E i \in 1..Len(id) : i % 2 = 1 /\ id[i] = key
    THEN id[(CHOOSE i \in 1..Len(id) : i % 2 = 1 /\ id[i] = key) + 1]
    ELSE ""

----------------------------------------------------------------------------
(* Remote objects *)

NoHub == [exists |-> FALSE, level |-> 0, eventHubs |-> FALSE,
          queuesNil |-> TRUE, queues |-> <<>>]
\* level: 0 Properties nil, 1 Routing nil, 2 Routing.Endpoints nil,
\* 3 Routing.Endpoints present.  eventHubs: EventHubs is non-nil.
HubAt(level, eh, qnil, qs) ==
    [exists |-> TRUE, level |-> level, eventHubs |-> eh,
     queuesNil |-> qnil, queues |-> qs]
Ep(name, conn) == [name |-> name, conn |-> conn]

InitQueues == { <<>>, <<Ep("a", InitConn)>>, <<Ep("a", InitConn), Ep("b", InitConn)>> }
InitHubs ==
    {NoHub, HubAt(0, FALSE, TRUE, <<>>), HubAt(1, FALSE, TRUE, <<>>),
     HubAt(2, FALSE, TRUE, <<>>)}
    \cup {HubAt(3, eh, TRUE, <<>>) : eh \in BOOLEAN}
    \cup {HubAt(3, eh, FALSE, qs) : eh \in BOOLEAN, qs \in InitQueues}

\* propsNil: InterfacePropertiesFormat is nil; nsgNil: NetworkSecurityGroup is
\* nil; nsgIdNil: NetworkSecurityGroup.ID is nil
NoNic == [exists |-> FALSE, propsNil |-> TRUE, nsgNil |-> TRUE, nsgIdNil |-> TRUE,
          nsgId |-> NoId]
NicAt(propsNil, nsgNil, nsgIdNil, nsgId) ==
    [exists |-> TRUE, propsNil |-> propsNil, nsgNil |-> nsgNil,
     nsgIdNil |-> nsgIdNil, nsgId |-> nsgId]
NoObj == [exists |-> FALSE, id |-> NoId, val |-> ""]

----------------------------------------------------------------------------
(* Handler frames *)

NoData == [id |-> NoId, isNew |-> FALSE, name |-> "", val |-> ""]
Idle == [op |-> "idle", pc |-> "idle", d |-> NoData, d0 |-> NoData,
         iothub |-> NoHub, read |-> NoNic, resp |-> NoObj,
         held |-> <<>>, res |-> "", saw |-> "", gets |-> 0, puts |-> 0,
         dels |-> 0]

Frame(op, pc, d) == [Idle EXCEPT !.op = op, !.pc = pc, !.d = d, !.d0 = d]

Names(qs) == {qs[i].name : i \in 1..Len(qs)}
LowerNames(qs) == {Lower(qs[i].name) : i \in 1..Len(qs)}

----------------------------------------------------------------------------
(* internal/locks: a mutex per (name, resource type) key *)

Range(sq) == {sq[i] : i \in 1..Len(sq)}

\* locks.ByName blocks until the key's mutex is free
ByName(p, key) == lock[key] = None
Acquire(p, key) == [lock EXCEPT ![key] = p]

\* the deferred locks.UnlockByName calls of a returning handler
UnlockByName(p, held) ==
    [k \in LockKeys |-> IF k \in Range(held) THEN None ELSE lock[k]]

\* a variant whose unlocks sit at the end of the handler instead of being
\* deferred: an early return with an error leaves them out
ReturnUnlockAtEnd(p, f, res) ==
    /\ h' = [h EXCEPT ![p] = [f EXCEPT !.pc = "done", !.res = res, !.held = <<>>]]
    /\ lock' = IF res = "ok" THEN UnlockByName(p, f.held) ELSE lock

\* a handler returns `res`: its deferred unlocks run
Return(p, f, res) ==
    /\ h' = [h EXCEPT ![p] = [f EXCEPT !.pc = "done", !.res = res, !.held = <<>>]]
    /\ lock' = UnlockByName(p, f.held)

Goto(p, f, pc) == h' = [h EXCEPT ![p] = [f EXCEPT !.pc = pc]]

\* a variant that stays at the failed call and issues it again
FailRetried(p, f) ==
    /\ h' = [h EXCEPT ![p] = [f EXCEPT !.saw = "error"]]
    /\ lock' = lock

\* a remote call (or a wait) failed with an error other than a 404: the
\* handler wraps it and returns it
Fail(p, f) == Return(p, [f EXCEPT !.saw = "error"], "err")

----------------------------------------------------------------------------
(* IoT Hub ServiceBus-queue endpoint: CreateUpdate *)

\* lines 101-113: the routing the handler works on.  `attached` says whether
\* it is the fetched hub's own Routing (a pointer into iothub) or a fresh
\* struct the fetched hub does not reference.
InitRouting(iothub) ==
    LET hasEndpoints == iothub.level = 3
        eh == hasEndpoints /\ iothub.eventHubs
    IN  [attached  |-> iothub.level >= 2,
         eventHubs |-> eh,
         queuesNil |-> IF eh THEN iothub.queuesNil ELSE FALSE,
         queues    |-> IF eh THEN iothub.queues ELSE <<>>]

\* a variant that compares the names exactly
HasEndpointExact(qs, endpointName) ==
    \E i \in 1..Len(qs) : qs[i].name = endpointName

\* lines 116-129: an existing endpoint of the same name (ignoring case)
HasEndpoint(qs, endpointName) ==
    \E i \in 1..Len(qs) : EqualFold(qs[i].name, endpointName)

\* lines 114-136: the list written back
MergeEndpoints(qs, queueEndpoint, isNew) ==
    LET kept == [i \in 1..Len(qs) |->
                    IF EqualFold(qs[i].name, queueEndpoint.name)
                    THEN queueEndpoint ELSE qs[i]]
    IN  IF isNew THEN Append(kept, queueEndpoint) ELSE kept

\* line 136-138: the hub sent to CreateOrUpdate
HubToSend(iothub, routing, endpoints) ==
    IF routing.attached
    THEN HubAt(3, routing.eventHubs, FALSE, endpoints)
    ELSE iothub

\* lines 79-80
HubCU_Lock(p) ==
    LET f == h[p] IN
    /\ kind = "iothub" /\ f.op = "CreateUpdate" /\ f.pc = "lock"
    /\ ByName(p, HubKey)
    /\ lock' = Acquire(p, HubKey)
    /\ h' = [h EXCEPT ![p] = [f EXCEPT !.pc = "get", !.held = Append(f.held, HubKey)]]
    /\ UNCHANGED <<kind, hub, nic, store, created, calls>>

\* lines 82-89
HubCU_Get(p) ==
    LET f == h[p] IN
    /\ kind = "iothub" /\ f.op = "CreateUpdate" /\ f.pc = "get"
    /\ \/ ~hub.exists /\ Return(p, f, "errNotFound")
       \/ Fail(p, f)
       \/ /\ hub.exists
          /\ h' = [h EXCEPT ![p] = [f EXCEPT !.pc = "put", !.iothub = hub]]
          /\ UNCHANGED lock
    /\ UNCHANGED <<kind, hub, nic, store, created, calls>>

\* lines 91-141
HubCU_Put(p) ==
    LET f == h[p]
        endpointName == f.d.name
        queueEndpoint == Ep(endpointName, f.d.val)
        routing == InitRouting(f.iothub)
        endpoints == MergeEndpoints(routing.queues, queueEndpoint, f.d.isNew)
    IN
    /\ kind = "iothub" /\ f.op = "CreateUpdate" /\ f.pc = "put"
    /\ IF f.iothub.level = 0 \/ routing.queuesNil
       THEN Return(p, f, "panic") /\ UNCHANGED hub
       ELSE IF f.d.isNew /\ HasEndpoint(routing.queues, endpointName)
       THEN Return(p, f, "errExists") /\ UNCHANGED hub
       ELSE IF ~f.d.isNew /\ ~HasEndpoint(routing.queues, endpointName)
       THEN Return(p, f, "errUnableToFind") /\ UNCHANGED hub
       ELSE \/ Fail(p, [f EXCEPT !.puts = @ + 1]) /\ UNCHANGED hub
            \/ /\ hub.exists
               /\ hub' = HubToSend(f.iothub, routing, endpoints)
               /\ h' = [h EXCEPT ![p] = [f EXCEPT !.pc = "wait", !.puts = @ + 1]]
               /\ UNCHANGED lock
    /\ UNCHANGED <<kind, nic, store, created, calls>>

\* a variant that also rebuilds the ID from the name the hub stores
HubReadFieldsIdFromRemote(d, iothub) ==
    LET endpointName == PathOf(d.id, "Endpoints")
        named == [d EXCEPT !.name = endpointName]
        match == {i \in 1..Len(iothub.queues) :
                     EqualFold(iothub.queues[i].name, endpointName)}
        found == iothub.queues[CHOOSE i \in match : \A j \in match : j <= i]
    IN  IF iothub.level < 3 \/ iothub.queuesNil \/ match = {}
        THEN named
        ELSE [named EXCEPT !.val = found.conn, !.id = EndpointId(HubId, found.name)]

\* lines 157-189, shared by the Read handler and the trailing Read of
\* CreateUpdate: the fields Read sets from the fetched hub
HubReadFields(d, iothub) ==
    LET endpointName == PathOf(d.id, "Endpoints")
        named == [d EXCEPT !.name = endpointName]
        match == {i \in 1..Len(iothub.queues) :
                     EqualFold(iothub.queues[i].name, endpointName)}
    IN  IF iothub.level < 3 \/ iothub.queuesNil \/ match = {}
        THEN named
        ELSE [named EXCEPT !.val = iothub.queues[CHOOSE i \in match :
                                        \A j \in match : j <= i].conn]

\* lines 143-149
HubCU_Wait(p) ==
    LET f == h[p]
        resourceId == EndpointId(HubId, f.d.name)
    IN
    /\ kind = "iothub" /\ f.op = "CreateUpdate" /\ f.pc = "wait"
    /\ \/ Fail(p, f)
       \/ Goto(p, [f EXCEPT !.d.id = resourceId], "read") /\ UNCHANGED lock
    /\ UNCHANGED <<kind, hub, nic, store, created, calls>>

\* line 149 (lines 152-190 run inside CreateUpdate)
HubCU_Read(p) ==
    LET f == h[p] IN
    /\ kind = "iothub" /\ f.op = "CreateUpdate" /\ f.pc = "read"
    /\ \/ ~hub.exists /\ Return(p, f, "errNotFound") /\ UNCHANGED created
       \/ Fail(p, f) /\ UNCHANGED created
       \/ /\ hub.exists
          /\ Return(p, [f EXCEPT !.d = HubReadFields(f.d, hub)], "ok")
          /\ created' = IF f.d.isNew THEN created \cup {Lower(f.d.name)} ELSE created
    /\ UNCHANGED <<kind, hub, nic, store, calls>>

resourceIotHubEndpointServiceBusQueueCreateUpdate(p) ==
    HubCU_Lock(p) \/ HubCU_Get(p) \/ HubCU_Put(p) \/ HubCU_Wait(p) \/ HubCU_Read(p)

----------------------------------------------------------------------------
(* IoT Hub ServiceBus-queue endpoint: Read and Delete *)

\* lines 152-190: takes no lock
resourceIotHubEndpointServiceBusQueueRead(p) ==
    LET f == h[p] IN
    /\ kind = "iothub" /\ f.op = "Read" /\ f.pc = "get"
    /\ IF ~ParseOk(f.d.id)
       THEN Return(p, f, "errParse")
       ELSE \/ ~hub.exists /\ Return(p, f, "errNotFound")
            \/ Fail(p, f)
            \/ /\ hub.exists
               /\ Return(p, [f EXCEPT !.d = HubReadFields(f.d, hub), !.iothub = hub], "ok")
    /\ UNCHANGED <<kind, hub, nic, store, created, calls>>

\* a variant that locks by the endpoint's name instead of the hub's
DeleteLockNameEndpoint(iothubName, endpointName) == endpointName

\* line 206: the name the Delete handler locks by
DeleteLockName(iothubName, endpointName) == iothubName

\* lines 197-207
HubDelete_Lock(p) ==
    LET f == h[p]
        key == <<DeleteLockName(PathOf(f.d.id, "IotHubs"), PathOf(f.d.id, "Endpoints")),
                 IothubResourceName>>
    IN
    /\ kind = "iothub" /\ f.op = "Delete" /\ f.pc = "lock"
    /\ IF ~ParseOk(f.d.id)
       THEN Return(p, f, "errParse")
       ELSE /\ ByName(p, key)
            /\ lock' = Acquire(p, key)
            /\ h' = [h EXCEPT ![p] = [f EXCEPT !.pc = "get", !.held = Append(f.held, key)]]
    /\ UNCHANGED <<kind, hub, nic, store, created, calls>>

\* lines 209-225
HubDelete_Get(p) ==
    LET f == h[p] IN
    /\ kind = "iothub" /\ f.op = "Delete" /\ f.pc = "get"
    /\ \/ ~hub.exists /\ Return(p, f, "errNotFound")
       \/ Fail(p, f)
       \/ /\ hub.exists
          /\ IF hub.level < 3 \/ hub.queuesNil
             THEN Return(p, f, "ok")
             ELSE h' = [h EXCEPT ![p] = [f EXCEPT !.pc = "put", !.iothub = hub]]
                  /\ UNCHANGED lock
    /\ UNCHANGED <<kind, hub, nic, store, created, calls>>

\* a variant that compares the names exactly
RemoveEndpointExact(qs, endpointName) ==
    SelectSeq(qs, LAMBDA e : e.name # endpointName)

\* lines 227-234
RemoveEndpoint(qs, endpointName) ==
    SelectSeq(qs, LAMBDA e : ~EqualFold(e.name, endpointName))

\* lines 227-241
HubDelete_Put(p) ==
    LET f == h[p]
        endpointName == PathOf(f.d.id, "Endpoints")
        updatedEndpoints == RemoveEndpoint(f.iothub.queues, endpointName)
    IN
    /\ kind = "iothub" /\ f.op = "Delete" /\ f.pc = "put"
    /\ \/ Fail(p, [f EXCEPT !.puts = @ + 1]) /\ UNCHANGED <<hub, created>>
       \/ /\ hub.exists
          /\ hub' = [f.iothub EXCEPT !.queues = updatedEndpoints]
          /\ created' = created \ {Lower(endpointName)}
          /\ h' = [h EXCEPT ![p] = [f EXCEPT !.pc = "wait", !.puts = @ + 1]]
          /\ UNCHANGED lock
    /\ UNCHANGED <<kind, nic, store, calls>>

\* lines 243-247
HubDelete_Wait(p) ==
    LET f == h[p] IN
    /\ kind = "iothub" /\ f.op = "Delete" /\ f.pc = "wait"
    /\ \/ Fail(p, f)
       \/ Return(p, f, "ok")
    /\ UNCHANGED <<kind, hub, nic, store, created, calls>>

resourceIotHubEndpointServiceBusQueueDelete(p) ==
    HubDelete_Lock(p) \/ HubDelete_Get(p) \/ HubDelete_Put(p) \/ HubDelete_Wait(p)

----------------------------------------------------------------------------
(* NIC <-> NSG association *)

\* strings.Split(d.Id(), "|"): the pieces between the separators
BarsOf(id) == {i \in 1..Len(id) : id[i] = "|"}
SplitCount(id) == Cardinality(BarsOf(id)) + 1
SplitFirst(id) ==
    IF BarsOf(id) = {} THEN id
    ELSE SubSeq(id, 1, (CHOOSE i \in BarsOf(id) : \A j \in BarsOf(id) : i <= j) - 1)

InitNics ==
    {NoNic, NicAt(TRUE, TRUE, TRUE, NoId), NicAt(FALSE, TRUE, TRUE, NoId),
     NicAt(FALSE, FALSE, TRUE, NoId)}
    \cup {NicAt(FALSE, FALSE, FALSE, NsgId(g)) : g \in NsgNames}

\* a variant that goes on to the security group's lock without taking the
\* interface's
NicCreate_LockSkipped(p) ==
    LET f == h[p] IN
    /\ kind = "nic" /\ f.op = "Create" /\ f.pc = "lock"
    /\ IF ~ParseOk(f.d.name)
       THEN Return(p, f, "errParse")
       ELSE Goto(p, f, "lock2") /\ UNCHANGED lock
    /\ UNCHANGED <<kind, hub, nic, store, created, calls>>

\* lines 63-72
NicCreate_Lock(p) ==
    LET f == h[p]
        networkInterfaceName == PathOf(f.d.name, "networkInterfaces")
        key == <<networkInterfaceName, networkInterfaceResourceName>>
    IN
    /\ kind = "nic" /\ f.op = "Create" /\ f.pc = "lock"
    /\ IF ~ParseOk(f.d.name)
       THEN Return(p, f, "errParse")
       ELSE /\ ByName(p, key)
            /\ lock' = Acquire(p, key)
            /\ h' = [h EXCEPT ![p] = [f EXCEPT !.pc = "lock2", !.held = Append(f.held, key)]]
    /\ UNCHANGED <<kind, hub, nic, store, created, calls>>

\* lines 74-81
NicCreate_LockNsg(p) ==
    LET f == h[p]
        nsgName == PathOf(f.d.val, "networkSecurityGroups")
        key == <<nsgName, networkSecurityGroupResourceName>>
    IN
    /\ kind = "nic" /\ f.op = "Create" /\ f.pc = "lock2"
    /\ IF ~ParseOk(f.d.val)
       THEN Return(p, f, "errParse")
       ELSE /\ ByName(p, key)
            /\ lock' = Acquire(p, key)
            /\ h' = [h EXCEPT ![p] = [f EXCEPT !.pc = "get", !.held = Append(f.held, key)]]
    /\ UNCHANGED <<kind, hub, nic, store, created, calls>>

\* lines 83-90
NicCreate_Get(p) ==
    LET f == h[p] IN
    /\ kind = "nic" /\ f.op = "Create" /\ f.pc = "get"
    /\ \/ ~nic.exists /\ Return(p, f, "errNotFound")
       \/ Fail(p, f)
       \/ /\ nic.exists
          /\ h' = [h EXCEPT ![p] = [f EXCEPT !.pc = "put", !.read = nic]]
          /\ UNCHANGED lock
    /\ UNCHANGED <<kind, hub, nic, store, created, calls>>

\* a variant that takes an attached group to exist only when it carries an ID
AssociationExistsWithId(props) == ~props.nsgNil /\ ~props.nsgIdNil

\* line 99: the association is taken to exist already
AssociationExists(props) == ~props.nsgNil

\* lines 92-110
NicCreate_Put(p) ==
    LET f == h[p] IN
    /\ kind = "nic" /\ f.op = "Create" /\ f.pc = "put"
    /\ IF f.read.propsNil
       THEN Return(p, f, "errProps") /\ UNCHANGED nic
       ELSE IF AssociationExists(f.read)
       THEN Return(p, f, "errExists") /\ UNCHANGED nic
       ELSE \/ Fail(p, [f EXCEPT !.puts = @ + 1]) /\ UNCHANGED nic
            \/ /\ nic.exists
               /\ nic' = [f.read EXCEPT !.nsgNil = FALSE, !.nsgIdNil = FALSE,
                                        !.nsgId = f.d.val]
               /\ h' = [h EXCEPT ![p] = [f EXCEPT !.pc = "wait", !.puts = @ + 1]]
               /\ UNCHANGED lock
    /\ UNCHANGED <<kind, hub, store, created, calls>>

\* lines 112-116
NicCreate_Wait(p) ==
    LET f == h[p]
        resourceId == AssociationId(f.d.name, f.d.val)
    IN
    /\ kind = "nic" /\ f.op = "Create" /\ f.pc = "wait"
    /\ \/ Fail(p, f)
       \/ Goto(p, [f EXCEPT !.d.id = resourceId], "read") /\ UNCHANGED lock
    /\ UNCHANGED <<kind, hub, nic, store, created, calls>>

\* lines 126-166: what Read answers for the interface the Get returned:
\* the result and the resource data
NicReadResult(d, found, read) ==
    IF ~found THEN [res |-> "ok", d |-> [d EXCEPT !.id = NoId]]
    ELSE IF read.propsNil THEN [res |-> "errProps", d |-> d]
    ELSE IF read.nsgNil \/ read.nsgIdNil THEN [res |-> "ok", d |-> [d EXCEPT !.id = NoId]]
    ELSE [res |-> "ok", d |-> [d EXCEPT !.name = NicId, !.val = read.nsgId]]

\* line 118 (lines 121-167 run inside Create)
NicCreate_Read(p) ==
    LET f == h[p]
        r == NicReadResult(f.d, nic.exists, nic)
    IN
    /\ kind = "nic" /\ f.op = "Create" /\ f.pc = "read"
    /\ \/ Fail(p, f) /\ UNCHANGED created
       \/ /\ Return(p, [f EXCEPT !.d = r.d], r.res)
          /\ created' = IF r.res = "ok" THEN created \cup {f.d.val} ELSE created
    /\ UNCHANGED <<kind, hub, nic, store, calls>>

resourceNetworkInterfaceSecurityGroupAssociationCreate(p) ==
    \/ NicCreate_Lock(p) \/ NicCreate_LockNsg(p) \/ NicCreate_Get(p)
    \/ NicCreate_Put(p) \/ NicCreate_Wait(p) \/ NicCreate_Read(p)

\* lines 121-167: takes no lock
resourceNetworkInterfaceSecurityGroupAssociationRead(p) ==
    LET f == h[p]
        r == NicReadResult(f.d, nic.exists, nic)
    IN
    /\ kind = "nic" /\ f.op = "Read" /\ f.pc = "get"
    /\ IF SplitCount(f.d.id) # 2 THEN Return(p, f, "errFormat")
       ELSE IF ~ParseOk(SplitFirst(f.d.id)) THEN Return(p, f, "errParse")
       ELSE \/ Fail(p, f)
            \/ Return(p, [f EXCEPT !.d = r.d, !.read = nic,
                                    !.saw = IF nic.exists THEN "found" ELSE "notfound"],
                      r.res)
    /\ UNCHANGED <<kind, hub, nic, store, created, calls>>

\* lines 174-188
NicDelete_Lock(p) ==
    LET f == h[p]
        name == PathOf(SplitFirst(f.d.id), "networkInterfaces")
        key == <<name, networkInterfaceResourceName>>
    IN
    /\ kind = "nic" /\ f.op = "Delete" /\ f.pc = "lock"
    /\ IF SplitCount(f.d.id) # 2 THEN Return(p, f, "errFormat")
       ELSE IF ~ParseOk(SplitFirst(f.d.id)) THEN Return(p, f, "errParse")
       ELSE /\ ByName(p, key)
            /\ lock' = Acquire(p, key)
            /\ h' = [h EXCEPT ![p] = [f EXCEPT !.pc = "get", !.held = Append(f.held, key)]]
    /\ UNCHANGED <<kind, hub, nic, store, created, calls>>

\* lines 190-197
NicDelete_Get(p) ==
    LET f == h[p] IN
    /\ kind = "nic" /\ f.op = "Delete" /\ f.pc = "get"
    /\ \/ ~nic.exists /\ Return(p, f, "errNotFound")
       \/ Fail(p, f)
       \/ /\ nic.exists
          /\ h' = [h EXCEPT ![p] = [f EXCEPT !.pc = "put", !.read = nic]]
          /\ UNCHANGED lock
    /\ UNCHANGED <<kind, hub, nic, store, created, calls>>

\* a variant that clears the reference only when it is the ID's group
NicDelete_PutIfSame(p) ==
    LET f == h[p]
        same == ~f.read.nsgNil /\ AssociationId(NicId, f.read.nsgId) = f.d.id
    IN
    /\ kind = "nic" /\ f.op = "Delete" /\ f.pc = "put"
    /\ IF f.read.propsNil
       THEN Return(p, f, "errProps") /\ UNCHANGED <<nic, created>>
       ELSE \/ Fail(p, [f EXCEPT !.puts = @ + 1]) /\ UNCHANGED <<nic, created>>
            \/ /\ nic.exists
               /\ nic' = IF same
                         THEN [f.read EXCEPT !.nsgNil = TRUE, !.nsgIdNil = TRUE, !.nsgId = NoId]
                         ELSE f.read
               /\ created' = {}
               /\ h' = [h EXCEPT ![p] = [f EXCEPT !.pc = "wait", !.puts = @ + 1]]
               /\ UNCHANGED lock
    /\ UNCHANGED <<kind, hub, store, calls>>

\* lines 199-210
NicDelete_Put(p) ==
    LET f == h[p] IN
    /\ kind = "nic" /\ f.op = "Delete" /\ f.pc = "put"
    /\ IF f.read.propsNil
       THEN Return(p, f, "errProps") /\ UNCHANGED <<nic, created>>
       ELSE \/ Fail(p, [f EXCEPT !.puts = @ + 1]) /\ UNCHANGED <<nic, created>>
            \/ /\ nic.exists
               /\ nic' = [f.read EXCEPT !.nsgNil = TRUE, !.nsgIdNil = TRUE, !.nsgId = NoId]
               /\ created' = {}
               /\ h' = [h EXCEPT ![p] = [f EXCEPT !.pc = "wait", !.puts = @ + 1]]
               /\ UNCHANGED lock
    /\ UNCHANGED <<kind, hub, store, calls>>

\* lines 211-215
NicDelete_Wait(p) ==
    LET f == h[p] IN
    /\ kind = "nic" /\ f.op = "Delete" /\ f.pc = "wait"
    /\ \/ Fail(p, f)
       \/ Return(p, f, "ok")
    /\ UNCHANGED <<kind, hub, nic, store, created, calls>>

resourceNetworkInterfaceSecurityGroupAssociationDelete(p) ==
    NicDelete_Lock(p) \/ NicDelete_Get(p) \/ NicDelete_Put(p) \/ NicDelete_Wait(p)

----------------------------------------------------------------------------
(* Stand-alone resources: one remote object per name, no parent, no lock *)

Kinds == {"sqlfw", "failover", "dataset", "expressroute", "devtest",
          "storagesync", "autovar", "dashboard"}
ObjNames == {"r1", "r2"}
BadJson == "{"

\* the last key of the resource type's ID path
TypeKey(k) ==
    CASE k = "sqlfw" -> "firewallRules"
      [] k = "failover" -> "failoverGroups"
      [] k = "dataset" -> "datasets"
      [] k = "expressroute" -> "expressRouteGateways"
      [] k = "devtest" -> "policies"
      [] k = "storagesync" -> "storageSyncServices"
      [] k = "autovar" -> "variables"
      [] OTHER -> "dashboards"
ObjId(k, n) == <<TypeKey(k), n>>
Obj(k, n, val) == [exists |-> TRUE, id |-> ObjId(k, n), val |-> val]

\* client.Get: the object, or the zero value beside a 404
GetResp(n) == IF store[n].exists THEN store[n] ELSE NoObj
\* utils.ResponseWasNotFound
ResponseWasNotFound(resp) == ~resp.exists

\* a variant with the second comparison turned round
ExistingFoundEmptyId(existing) == existing.exists /\ existing.id = NoId

\* `existing.ID != nil && *existing.ID != ""`
ExistingFound(existing) == existing.exists /\ existing.id # NoId

\* the existence check of a create: skipped by an update (always: the handler
\* serves Create only)
CheckExisting(p, k, op, always) ==
    LET f == h[p]
        existing == GetResp(f.d.name)
        found == IF k = "autovar" THEN ~ResponseWasNotFound(existing)
                 ELSE ExistingFound(existing)
    IN
    /\ kind = k /\ f.op = op /\ f.pc = "check"
    /\ IF ~(always \/ f.d.isNew)
       THEN Goto(p, f, "put") /\ UNCHANGED lock
       ELSE \/ Fail(p, [f EXCEPT !.gets = @ + 1])
            \/ /\ found
               /\ Return(p, [f EXCEPT !.resp = existing, !.gets = @ + 1], "errExists")
            \/ /\ ~found
               /\ Goto(p, [f EXCEPT !.resp = existing, !.gets = @ + 1], "put")
               /\ UNCHANGED lock
    /\ UNCHANGED <<kind, hub, nic, store, created, calls>>

\* a variant that goes on to the re-fetch without waiting on the future
IssueCreateOrUpdateNoWait(p, k, op, lro) ==
    LET f == h[p] IN
    /\ kind = k /\ f.op = op /\ f.pc = "put"
    /\ \/ Fail(p, [f EXCEPT !.puts = @ + 1]) /\ UNCHANGED store
       \/ /\ store' = [store EXCEPT ![f.d.name] = Obj(k, f.d.name, f.d.val)]
          /\ Goto(p, [f EXCEPT !.puts = @ + 1], "refetch")
          /\ UNCHANGED lock
    /\ UNCHANGED <<kind, hub, nic, created, calls>>

\* client.CreateOrUpdate (client.Create for Storage Sync); lro: it answers a
\* future the handler then waits on
IssueCreateOrUpdate(p, k, op, lro) ==
    LET f == h[p] IN
    /\ kind = k /\ f.op = op /\ f.pc = "put"
    /\ \/ Fail(p, [f EXCEPT !.puts = @ + 1]) /\ UNCHANGED store
       \/ /\ store' = [store EXCEPT ![f.d.name] = Obj(k, f.d.name, f.d.val)]
          /\ Goto(p, [f EXCEPT !.puts = @ + 1], IF lro THEN "wait" ELSE "refetch")
          /\ UNCHANGED lock
    /\ UNCHANGED <<kind, hub, nic, created, calls>>

\* future.WaitForCompletionRef
WaitForCompletionRef(p, k, op, next) ==
    LET f == h[p] IN
    /\ kind = k /\ f.op = op /\ f.pc = "wait"
    /\ \/ Fail(p, f)
       \/ Goto(p, f, next) /\ UNCHANGED lock
    /\ UNCHANGED <<kind, hub, nic, store, created, calls>>

\* the Get after the write, and d.SetId(*resp.ID)
Refetch(p, k, op) ==
    LET f == h[p]
        resp == GetResp(f.d.name)
    IN
    /\ kind = k /\ f.op = op /\ f.pc = "refetch"
    /\ \/ Fail(p, [f EXCEPT !.gets = @ + 1])
       \/ /\ ResponseWasNotFound(resp)
          /\ Return(p, [f EXCEPT !.gets = @ + 1], "errNotFound")
       \/ /\ ~ResponseWasNotFound(resp)
          /\ Goto(p, [f EXCEPT !.d.id = resp.id, !.gets = @ + 1], "read")
          /\ UNCHANGED lock
    /\ UNCHANGED <<kind, hub, nic, store, created, calls>>

\* a variant that keeps the ID
RemoveFromStateKeepId(d) == d

\* d.SetId("") on a 404: the resource leaves the state
RemoveFromState(d) == [d EXCEPT !.id = NoId]

\* a Read handler, from the parse of d.Id() on: a 404 removes the resource
\* from state, otherwise the fields are set from the response
ReadResource(p, k, op) ==
    LET f == h[p]
        name == PathOf(f.d.id, TypeKey(k))
        resp == IF name \in ObjNames THEN GetResp(name) ELSE NoObj
    IN
    /\ kind = k /\ f.op = op /\ f.pc = "read"
    /\ IF ~ParseOk(f.d.id)
       THEN Return(p, f, "errParse")
       ELSE \/ Fail(p, [f EXCEPT !.gets = @ + 1])
            \/ /\ ResponseWasNotFound(resp)
               /\ Return(p, [f EXCEPT !.d = RemoveFromState(f.d), !.gets = @ + 1,
                                       !.saw = "notfound"], "ok")
            \/ /\ ~ResponseWasNotFound(resp)
               /\ Return(p, [f EXCEPT !.d.name = name, !.d.val = resp.val,
                                       !.gets = @ + 1, !.saw = "found"], "ok")
    /\ UNCHANGED <<kind, hub, nic, store, created, calls>>

\* client.Delete answers: an error other than 404, a 404 for an absent
\* object (or success: the service may answer 200/204 there), success
DeleteAnswers(n) ==
    {"error"} \cup (IF n \in ObjNames /\ store[n].exists THEN {"ok"} ELSE {"notfound", "ok"})
Removed(n) == IF n \in ObjNames THEN [store EXCEPT ![n] = NoObj] ELSE store

\* a variant that lets no 404 pass
DeleteResultStrict(a, tolerant) ==
    CASE a = "ok" -> "ok"
      [] a = "notfound" -> "errNotFound"
      [] OTHER -> "err"

\* what a Delete handler returns for the answer `a` of the delete call (or of
\* the wait); tolerant: the handler lets a 404 pass
DeleteResult(a, tolerant) ==
    CASE a = "ok" -> "ok"
      [] a = "notfound" -> IF tolerant THEN "ok" ELSE "errNotFound"
      [] OTHER -> "err"

\* a Delete handler that calls client.Delete and answers at once.
\* tolerant: a 404 is not an error
DeleteSync(p, k, tolerant) ==
    LET f == h[p]
        name == PathOf(f.d.id, TypeKey(k))
    IN
    /\ kind = k /\ f.op = "Delete" /\ f.pc = "delete"
    /\ IF ~ParseOk(f.d.id)
       THEN Return(p, f, "errParse") /\ UNCHANGED store
       ELSE \E a \in DeleteAnswers(name) :
              /\ store' = IF a = "ok" THEN Removed(name) ELSE store
              /\ Return(p, [f EXCEPT !.dels = @ + 1, !.saw = a], DeleteResult(a, tolerant))
    /\ UNCHANGED <<kind, hub, nic, created, calls>>

\* a Delete handler whose client.Delete answers a future
DeleteLro(p, k, tolerant) ==
    LET f == h[p]
        name == PathOf(f.d.id, TypeKey(k))
    IN
    /\ kind = k /\ f.op = "Delete" /\ f.pc = "delete"
    /\ IF ~ParseOk(f.d.id)
       THEN Return(p, f, "errParse") /\ UNCHANGED store
       ELSE \E a \in DeleteAnswers(name) :
              /\ store' = IF a = "ok" THEN Removed(name) ELSE store
              /\ IF a = "ok"
                 THEN Goto(p, [f EXCEPT !.dels = @ + 1], "wait") /\ UNCHANGED lock
                 ELSE Return(p, [f EXCEPT !.dels = @ + 1, !.saw = a],
                             DeleteResult(a, tolerant))
    /\ UNCHANGED <<kind, hub, nic, created, calls>>

\* the wait on a delete future: done, a 404 from the poll, another error
DeleteWait(p, k, tolerant) ==
    LET f == h[p] IN
    /\ kind = k /\ f.op = "Delete" /\ f.pc = "wait"
    /\ \E a \in {"ok", "notfound", "error"} :
          Return(p, [f EXCEPT !.saw = a], DeleteResult(a, tolerant))
    /\ UNCHANGED <<kind, hub, nic, store, created, calls>>

----------------------------------------------------------------------------
(* The stand-alone handlers, each from its steps *)

\* a variant of the SQL firewall rule's CreateUpdate without the existence
\* check
resourceSqlFirewallRuleCreateUpdateUnchecked(p) ==
    \/ /\ kind = "sqlfw" /\ h[p].op = "CreateUpdate" /\ h[p].pc = "check"
       /\ Goto(p, h[p], "put")
       /\ UNCHANGED <<kind, hub, nic, store, lock, created, calls>>
    \/ IssueCreateOrUpdate(p, "sqlfw", "CreateUpdate", FALSE)
    \/ Refetch(p, "sqlfw", "CreateUpdate")
    \/ ReadResource(p, "sqlfw", "CreateUpdate")

resourceSqlFirewallRuleCreateUpdate(p) ==
    \/ CheckExisting(p, "sqlfw", "CreateUpdate", FALSE)
    \/ IssueCreateOrUpdate(p, "sqlfw", "CreateUpdate", FALSE)
    \/ Refetch(p, "sqlfw", "CreateUpdate")
    \/ ReadResource(p, "sqlfw", "CreateUpdate")
resourceSqlFirewallRuleRead(p) == ReadResource(p, "sqlfw", "Read")
resourceSqlFirewallRuleDelete(p) == DeleteSync(p, "sqlfw", TRUE)

resourceSqlFailoverGroupCreateUpdate(p) ==
    \/ CheckExisting(p, "failover", "CreateUpdate", FALSE)
    \/ IssueCreateOrUpdate(p, "failover", "CreateUpdate", TRUE)
    \/ WaitForCompletionRef(p, "failover", "CreateUpdate", "refetch")
    \/ Refetch(p, "failover", "CreateUpdate")
    \/ ReadResource(p, "failover", "CreateUpdate")
resourceSqlFailoverGroupRead(p) == ReadResource(p, "failover", "Read")
resourceSqlFailoverGroupDelete(p) ==
    DeleteLro(p, "failover", FALSE) \/ DeleteWait(p, "failover", FALSE)

resourceDataFactoryDatasetAzureBlobCreateUpdate(p) ==
    \/ CheckExisting(p, "dataset", "CreateUpdate", FALSE)
    \/ IssueCreateOrUpdate(p, "dataset", "CreateUpdate", FALSE)
    \/ Refetch(p, "dataset", "CreateUpdate")
    \/ ReadResource(p, "dataset", "CreateUpdate")
resourceDataFactoryDatasetAzureBlobRead(p) == ReadResource(p, "dataset", "Read")
resourceDataFactoryDatasetAzureBlobDelete(p) == DeleteSync(p, "dataset", TRUE)

resourceExpressRouteGatewayCreateUpdate(p) ==
    \/ CheckExisting(p, "expressroute", "CreateUpdate", FALSE)
    \/ IssueCreateOrUpdate(p, "expressroute", "CreateUpdate", TRUE)
    \/ WaitForCompletionRef(p, "expressroute", "CreateUpdate", "refetch")
    \/ Refetch(p, "expressroute", "CreateUpdate")
    \/ ReadResource(p, "expressroute", "CreateUpdate")
resourceExpressRouteGatewayRead(p) == ReadResource(p, "expressroute", "Read")
resourceExpressRouteGatewayDelete(p) ==
    DeleteLro(p, "expressroute", TRUE) \/ DeleteWait(p, "expressroute", TRUE)

resourceArmDevTestPolicyCreateUpdate(p) ==
    \/ CheckExisting(p, "devtest", "CreateUpdate", FALSE)
    \/ IssueCreateOrUpdate(p, "devtest", "CreateUpdate", FALSE)
    \/ Refetch(p, "devtest", "CreateUpdate")
    \/ ReadResource(p, "devtest", "CreateUpdate")
resourceArmDevTestPolicyRead(p) == ReadResource(p, "devtest", "Read")

\* part_001 lines 408-426: the Get before the delete
DevTestDelete_Get(p) ==
    LET f == h[p]
        name == PathOf(f.d.id, TypeKey("devtest"))
        read == IF name \in ObjNames THEN GetResp(name) ELSE NoObj
    IN
    /\ kind = "devtest" /\ f.op = "Delete" /\ f.pc = "delete"
    /\ IF ~ParseOk(f.d.id)
       THEN Return(p, f, "errParse")
       ELSE \/ Fail(p, [f EXCEPT !.gets = @ + 1])
            \/ /\ ResponseWasNotFound(read)
               /\ Return(p, [f EXCEPT !.gets = @ + 1, !.saw = "notfound"], "ok")
            \/ /\ ~ResponseWasNotFound(read)
               /\ Goto(p, [f EXCEPT !.gets = @ + 1, !.resp = read], "delete2")
               /\ UNCHANGED lock
    /\ UNCHANGED <<kind, hub, nic, store, created, calls>>

\* part_001 lines 428-432
DevTestDelete_Delete(p) ==
    LET f == h[p]
        name == PathOf(f.d.id, TypeKey("devtest"))
    IN
    /\ kind = "devtest" /\ f.op = "Delete" /\ f.pc = "delete2"
    /\ \E a \in DeleteAnswers(name) :
          /\ store' = IF a = "ok" THEN Removed(name) ELSE store
          /\ Return(p, [f EXCEPT !.dels = @ + 1, !.saw = a], DeleteResult(a, FALSE))
    /\ UNCHANGED <<kind, hub, nic, created, calls>>

resourceArmDevTestPolicyDelete(p) == DevTestDelete_Get(p) \/ DevTestDelete_Delete(p)

resourceStorageSyncCreate(p) ==
    \/ CheckExisting(p, "storagesync", "Create", TRUE)
    \/ IssueCreateOrUpdate(p, "storagesync", "Create", TRUE)
    \/ WaitForCompletionRef(p, "storagesync", "Create", "refetch")
    \/ Refetch(p, "storagesync", "Create")
    \/ ReadResource(p, "storagesync", "Create")
resourceStorageSyncRead(p) == ReadResource(p, "storagesync", "Read")

\* storage_sync_resource.go lines 148-168: client.Update changes an existing
\* service only
StorageSyncUpdate_Update(p) ==
    LET f == h[p]
        name == PathOf(f.d.id, TypeKey("storagesync"))
    IN
    /\ kind = "storagesync" /\ f.op = "Update" /\ f.pc = "update"
    /\ IF ~ParseOk(f.d.id)
       THEN Return(p, f, "errParse") /\ UNCHANGED store
       ELSE \/ Fail(p, [f EXCEPT !.puts = @ + 1]) /\ UNCHANGED store
            \/ /\ ~(name \in ObjNames /\ store[name].exists)
               /\ Return(p, [f EXCEPT !.puts = @ + 1], "errNotFound")
               /\ UNCHANGED store
            \/ /\ name \in ObjNames /\ store[name].exists
               /\ store' = [store EXCEPT ![name].val = f.d.val]
               /\ Goto(p, [f EXCEPT !.puts = @ + 1], "wait")
               /\ UNCHANGED lock
    /\ UNCHANGED <<kind, hub, nic, created, calls>>

resourceStorageSyncUpdate(p) ==
    \/ StorageSyncUpdate_Update(p)
    \/ WaitForCompletionRef(p, "storagesync", "Update", "read")
    \/ ReadResource(p, "storagesync", "Update")
resourceStorageSyncDelete(p) ==
    DeleteLro(p, "storagesync", FALSE) \/ DeleteWait(p, "storagesync", FALSE)

resourceAutomationVariableCreateUpdate(p) ==
    \/ CheckExisting(p, "autovar", "CreateUpdate", FALSE)
    \/ IssueCreateOrUpdate(p, "autovar", "CreateUpdate", FALSE)
    \/ Refetch(p, "autovar", "CreateUpdate")
    \/ ReadResource(p, "autovar", "CreateUpdate")
resourceAutomationVariableRead(p) == ReadResource(p, "autovar", "Read")
resourceAutomationVariableDelete(p) == DeleteSync(p, "autovar", FALSE)

\* portal_dashboard_resource.go lines 65-89: no existence check; the
\* properties are parsed, the dashboard is written, the ID is built from the
\* configured names
DashboardCreateUpdate_Put(p) ==
    LET f == h[p] IN
    /\ kind = "dashboard" /\ f.op = "CreateUpdate" /\ f.pc = "put"
    /\ IF f.d.val = BadJson
       THEN Return(p, f, "errJson") /\ UNCHANGED store
       ELSE \/ Fail(p, [f EXCEPT !.puts = @ + 1]) /\ UNCHANGED store
            \/ /\ store' = [store EXCEPT ![f.d.name] = Obj("dashboard", f.d.name, f.d.val)]
               /\ Goto(p, [f EXCEPT !.puts = @ + 1,
                                    !.d.id = ObjId("dashboard", f.d.name)], "read")
               /\ UNCHANGED lock
    /\ UNCHANGED <<kind, hub, nic, created, calls>>

resourceDashboardCreateUpdate(p) ==
    DashboardCreateUpdate_Put(p) \/ ReadResource(p, "dashboard", "CreateUpdate")
resourceDashboardRead(p) == ReadResource(p, "dashboard", "Read")
resourceDashboardDelete(p) == DeleteSync(p, "dashboard", TRUE)

----------------------------------------------------------------------------
(* The plugin SDK calling a handler, and taking its result *)

EndpointIds == {EndpointId(HubId, n) : n \in EpNames} \cup {BadId}

\* a Create of a new endpoint, an Update, a Read or a Delete of one in state
HubInvoke(p) ==
    /\ kind = "iothub" /\ h[p].pc = "idle" /\ calls < MaxCalls
    /\ calls' = calls + 1
    /\ \/ \E n \in EpNames :
            h' = [h EXCEPT ![p] = Frame("CreateUpdate", "lock",
                    [id |-> NoId, isNew |-> TRUE, name |-> n, val |-> Conn(p)])]
       \/ \E n \in EpNames :
            h' = [h EXCEPT ![p] = Frame("CreateUpdate", "lock",
                    [id |-> EndpointId(HubId, n), isNew |-> FALSE, name |-> n,
                     val |-> Conn(p)])]
       \/ \E id \in EndpointIds :
            h' = [h EXCEPT ![p] = Frame("Read", "get",
                    [id |-> id, isNew |-> FALSE, name |-> PathOf(id, "Endpoints"),
                     val |-> InitConn])]
       \/ \E id \in EndpointIds :
            h' = [h EXCEPT ![p] = Frame("Delete", "lock",
                    [id |-> id, isNew |-> FALSE, name |-> PathOf(id, "Endpoints"),
                     val |-> InitConn])]
    /\ UNCHANGED <<kind, hub, nic, store, lock, created>>

AssociationIds == {AssociationId(NicId, g) : g \in NsgIds} \cup {BadId}

\* a Create of a new association, a Read or a Delete of one in state
NicInvoke(p) ==
    /\ kind = "nic" /\ h[p].pc = "idle" /\ calls < MaxCalls
    /\ calls' = calls + 1
    /\ \/ \E n \in {NicId, BadId}, g \in NsgIds \cup {BadId} :
            h' = [h EXCEPT ![p] = Frame("Create", "lock",
                    [id |-> NoId, isNew |-> TRUE, name |-> n, val |-> g])]
       \/ \E id \in AssociationIds, g \in NsgIds :
            h' = [h EXCEPT ![p] = Frame("Read", "get",
                    [id |-> id, isNew |-> FALSE, name |-> NicId, val |-> g])]
       \/ \E id \in AssociationIds, g \in NsgIds :
            h' = [h EXCEPT ![p] = Frame("Delete", "lock",
                    [id |-> id, isNew |-> FALSE, name |-> NicId, val |-> g])]
    /\ UNCHANGED <<kind, hub, nic, store, lock, created>>

ObjIds(k) == {ObjId(k, n) : n \in ObjNames} \cup {BadId}

\* the handler that serves Create (and Update), and where it starts
CreateOp(k) == IF k = "storagesync" THEN "Create" ELSE "CreateUpdate"
UpdateOp(k) == IF k = "storagesync" THEN "Update" ELSE "CreateUpdate"
CreatePc(k) == IF k = "dashboard" THEN "put" ELSE "check"
UpdatePc(k) == IF k = "storagesync" THEN "update" ELSE CreatePc(k)

\* the schema's "name": ForceNew in every resource but the Dashboard
\* (portal_dashboard_resource.go lines 40-44), so only a Dashboard's Update
\* can be called with a configured name other than the one in its ID
ConfiguredNames(k, n) == IF k = "dashboard" THEN ObjNames ELSE {n}

\* a Create of a new resource, an Update, a Read or a Delete of one in state
CrudInvoke(p) ==
    /\ kind \in Kinds /\ h[p].pc = "idle" /\ calls < MaxCalls
    /\ calls' = calls + 1
    /\ \/ \E n \in ObjNames, v \in {Conn(p)} \cup (IF kind = "dashboard" THEN {BadJson} ELSE {}) :
            h' = [h EXCEPT ![p] = Frame(CreateOp(kind), CreatePc(kind),
                    [id |-> NoId, isNew |-> TRUE, name |-> n, val |-> v])]
       \/ \E n \in ObjNames : \E m \in ConfiguredNames(kind, n) :
            h' = [h EXCEPT ![p] = Frame(UpdateOp(kind), UpdatePc(kind),
                    [id |-> ObjId(kind, n), isNew |-> FALSE, name |-> m,
                     val |-> Conn(p)])]
       \/ \E id \in ObjIds(kind) :
            h' = [h EXCEPT ![p] = Frame("Read", "read",
                    [id |-> id, isNew |-> FALSE, name |-> PathOf(id, TypeKey(kind)),
                     val |-> InitConn])]
       \/ \E id \in ObjIds(kind) :
            h' = [h EXCEPT ![p] = Frame("Delete", "delete",
                    [id |-> id, isNew |-> FALSE, name |-> PathOf(id, TypeKey(kind)),
                     val |-> InitConn])]
    /\ UNCHANGED <<kind, hub, nic, store, lock, created>>

\* the SDK takes the handler's result; the goroutine is free again
Collect(p) ==
    /\ h[p].pc = "done"
    /\ h' = [h EXCEPT ![p] = Idle]
    /\ UNCHANGED <<kind, hub, nic, store, lock, created, calls>>

----------------------------------------------------------------------------
(* Handlers that lock a parent: the IoT Hub endpoint and the NIC/NSG       *)
(* association                                                             *)

InitLocks ==
    /\ kind \in {"iothub", "nic"}
    /\ hub \in (IF kind = "iothub" THEN InitHubs ELSE {NoHub})
    /\ nic \in (IF kind = "nic" THEN InitNics ELSE {NoNic})
    /\ store = [n \in ObjNames |-> NoObj]
    /\ lock = [k \in LockKeys |-> None]
    /\ h = [p \in Procs |-> Idle]
    /\ created = {}
    /\ calls = 0

NextLocks ==
    \E p \in Procs :
        \/ HubInvoke(p)
        \/ resourceIotHubEndpointServiceBusQueueCreateUpdate(p)
        \/ resourceIotHubEndpointServiceBusQueueRead(p)
        \/ resourceIotHubEndpointServiceBusQueueDelete(p)
        \/ NicInvoke(p)
        \/ resourceNetworkInterfaceSecurityGroupAssociationCreate(p)
        \/ resourceNetworkInterfaceSecurityGroupAssociationRead(p)
        \/ resourceNetworkInterfaceSecurityGroupAssociationDelete(p)
        \/ Collect(p)


----------------------------------------------------------------------------
(* The stand-alone resources *)

InitCrud ==
    /\ kind \in Kinds
    /\ hub = NoHub
    /\ nic = NoNic
    /\ store \in [ObjNames -> {NoObj, Obj(kind, "r1", InitConn), Obj(kind, "r2", InitConn)}]
    /\ \A n \in ObjNames : store[n].exists => store[n].id = ObjId(kind, n)
    /\ lock = [k \in LockKeys |-> None]
    /\ h = [p \in Procs |-> Idle]
    /\ created = {}
    /\ calls = 0

NextCrud ==
    \E p \in Procs :
        \/ CrudInvoke(p)
        \/ resourceSqlFirewallRuleCreateUpdate(p)
        \/ resourceSqlFirewallRuleRead(p)
        \/ resourceSqlFirewallRuleDelete(p)
        \/ resourceSqlFailoverGroupCreateUpdate(p)
        \/ resourceSqlFailoverGroupRead(p)
        \/ resourceSqlFailoverGroupDelete(p)
        \/ resourceDataFactoryDatasetAzureBlobCreateUpdate(p)
        \/ resourceDataFactoryDatasetAzureBlobRead(p)
        \/ resourceDataFactoryDatasetAzureBlobDelete(p)
        \/ resourceExpressRouteGatewayCreateUpdate(p)
        \/ resourceExpressRouteGatewayRead(p)
        \/ resourceExpressRouteGatewayDelete(p)
        \/ resourceArmDevTestPolicyCreateUpdate(p)
        \/ resourceArmDevTestPolicyRead(p)
        \/ resourceArmDevTestPolicyDelete(p)
        \/ resourceStorageSyncCreate(p)
        \/ resourceStorageSyncRead(p)
        \/ resourceStorageSyncUpdate(p)
        \/ resourceStorageSyncDelete(p)
        \/ resourceAutomationVariableCreateUpdate(p)
        \/ resourceAutomationVariableRead(p)
        \/ resourceAutomationVariableDelete(p)
        \/ resourceDashboardCreateUpdate(p)
        \/ resourceDashboardRead(p)
        \/ resourceDashboardDelete(p)
        \/ Collect(p)


----------------------------------------------------------------------------
(* Data sources: a Read by the configured names, nothing else *)

DataKinds == {"ds_token", "ds_actiongroup", "ds_subscription", "ds_keyvault",
              "ds_autovar"}

DataTypeKey(k) ==
    CASE k = "ds_token" -> "tokens"
      [] k = "ds_actiongroup" -> "actionGroups"
      [] k = "ds_subscription" -> "subscriptions"
      [] k = "ds_keyvault" -> "certificates"
      [] OTHER -> "variables"
DataObj(k, n) == [exists |-> TRUE, id |-> <<DataTypeKey(k), n>>, val |-> InitConn]

\* the Get of a data source and what follows.  removes: on a 404 the handler
\* logs, calls d.SetId("") and returns nil; otherwise it returns a
\* "was not found" error
DataSourceGet(p, k, removes) ==
    LET f == h[p]
        resp == GetResp(f.d.name)
    IN
    /\ kind = k /\ f.op = "DataRead" /\ f.pc = "read"
    /\ \/ Fail(p, [f EXCEPT !.gets = @ + 1])
       \/ /\ ResponseWasNotFound(resp)
          /\ IF removes
             THEN Return(p, [f EXCEPT !.d = RemoveFromState(f.d), !.gets = @ + 1,
                                     !.saw = "notfound"], "ok")
             ELSE Return(p, [f EXCEPT !.gets = @ + 1, !.saw = "notfound"],
                         "errNotFound")
       \/ /\ ~ResponseWasNotFound(resp)
          /\ Return(p, [f EXCEPT !.d.id = resp.id, !.d.val = resp.val,
                                  !.gets = @ + 1, !.saw = "found"], "ok")
    /\ UNCHANGED <<kind, hub, nic, store, created, calls>>

dataSourceContainerRegistryTokenRead(p) == DataSourceGet(p, "ds_token", FALSE)
dataSourceMonitorActionGroupRead(p) == DataSourceGet(p, "ds_actiongroup", FALSE)
dataSourceSubscriptionRead(p) == DataSourceGet(p, "ds_subscription", FALSE)
dataSourceAutomationVariableRead(p) == DataSourceGet(p, "ds_autovar", TRUE)

\* keyVaultsClient.BaseUriForKeyVault: a remote lookup before the Get
KeyVaultCertificate_BaseUri(p) ==
    LET f == h[p] IN
    /\ kind = "ds_keyvault" /\ f.op = "DataRead" /\ f.pc = "baseuri"
    /\ \/ Fail(p, [f EXCEPT !.gets = @ + 1])
       \/ Goto(p, [f EXCEPT !.gets = @ + 1], "read") /\ UNCHANGED lock
    /\ UNCHANGED <<kind, hub, nic, store, created, calls>>

dataSourceKeyVaultCertificateRead(p) ==
    KeyVaultCertificate_BaseUri(p) \/ DataSourceGet(p, "ds_keyvault", TRUE)

\* a data source is read by its configured name; it has no ID yet
DataInvoke(p) ==
    /\ kind \in DataKinds /\ h[p].pc = "idle" /\ calls < MaxCalls
    /\ calls' = calls + 1
    /\ \E n \in ObjNames :
          h' = [h EXCEPT ![p] = Frame("DataRead",
                  IF kind = "ds_keyvault" THEN "baseuri" ELSE "read",
                  [id |-> NoId, isNew |-> FALSE, name |-> n, val |-> ""])]
    /\ UNCHANGED <<kind, hub, nic, store, lock, created>>

InitData ==
    /\ kind \in DataKinds
    /\ hub = NoHub
    /\ nic = NoNic
    /\ store \in [ObjNames -> {NoObj, DataObj(kind, "r1"), DataObj(kind, "r2")}]
    /\ \A n \in ObjNames : store[n].exists => store[n].id = <<DataTypeKey(kind), n>>
    /\ lock = [k \in LockKeys |-> None]
    /\ h = [p \in Procs |-> Idle]
    /\ created = {}
    /\ calls = 0

NextData ==
    \E p \in Procs :
        \/ DataInvoke(p)
        \/ dataSourceContainerRegistryTokenRead(p)
        \/ dataSourceMonitorActionGroupRead(p)
        \/ dataSourceSubscriptionRead(p)
        \/ dataSourceKeyVaultCertificateRead(p)
        \/ dataSourceAutomationVariableRead(p)
        \/ Collect(p)

----------------------------------------------------------------------------
(* The provider: in a behaviour the handlers of one resource type run, in   *)
(* two goroutines                                                           *)

Init == InitLocks \/ InitCrud \/ InitData
Next == NextLocks \/ NextCrud \/ NextData
Spec == Init /\ [][Next]_vars

\* a step of the handler that goroutine p runs
HandlerStep(p) ==
    \/ resourceIotHubEndpointServiceBusQueueCreateUpdate(p)
    \/ resourceIotHubEndpointServiceBusQueueRead(p)
    \/ resourceIotHubEndpointServiceBusQueueDelete(p)
    \/ resourceNetworkInterfaceSecurityGroupAssociationCreate(p)
    \/ resourceNetworkInterfaceSecurityGroupAssociationRead(p)
    \/ resourceNetworkInterfaceSecurityGroupAssociationDelete(p)
    \/ resourceSqlFirewallRuleCreateUpdate(p)
    \/ resourceSqlFirewallRuleRead(p)
    \/ resourceSqlFirewallRuleDelete(p)
    \/ resourceSqlFailoverGroupCreateUpdate(p)
    \/ resourceSqlFailoverGroupRead(p)
    \/ resourceSqlFailoverGroupDelete(p)
    \/ resourceDataFactoryDatasetAzureBlobCreateUpdate(p)
    \/ resourceDataFactoryDatasetAzureBlobRead(p)
    \/ resourceDataFactoryDatasetAzureBlobDelete(p)
    \/ resourceExpressRouteGatewayCreateUpdate(p)
    \/ resourceExpressRouteGatewayRead(p)
    \/ resourceExpressRouteGatewayDelete(p)
    \/ resourceArmDevTestPolicyCreateUpdate(p)
    \/ resourceArmDevTestPolicyRead(p)
    \/ resourceArmDevTestPolicyDelete(p)
    \/ resourceStorageSyncCreate(p)
    \/ resourceStorageSyncRead(p)
    \/ resourceStorageSyncUpdate(p)
    \/ resourceStorageSyncDelete(p)
    \/ resourceAutomationVariableCreateUpdate(p)
    \/ resourceAutomationVariableRead(p)
    \/ resourceAutomationVariableDelete(p)
    \/ resourceDashboardCreateUpdate(p)
    \/ resourceDashboardRead(p)
    \/ resourceDashboardDelete(p)
    \/ dataSourceContainerRegistryTokenRead(p)
    \/ dataSourceMonitorActionGroupRead(p)
    \/ dataSourceSubscriptionRead(p)
    \/ dataSourceKeyVaultCertificateRead(p)
    \/ dataSourceAutomationVariableRead(p)

\* the steps that wait for a named lock
AcquireStep(p) ==
    \/ HubCU_Lock(p) \/ HubDelete_Lock(p)
    \/ NicCreate_Lock(p) \/ NicCreate_LockNsg(p) \/ NicDelete_Lock(p)

\* every remote call and every wait ends (by the handler's deadline), a
\* goroutine that can run does run, and the mutex serves a waiter that finds
\* it free again and again
Fairness ==
    \A p \in Procs : WF_vars(HandlerStep(p)) /\ SF_vars(AcquireStep(p))

\* the handlers that wait for a lock or for a long-running operation: the
\* IoT Hub endpoint, the NIC/NSG association and the ExpressRoute gateway
InitFair ==
    /\ kind \in {"iothub", "nic", "expressroute"}
    /\ hub \in (IF kind = "iothub"
                THEN {NoHub, HubAt(3, TRUE, FALSE, <<Ep("a", InitConn)>>)}
                ELSE {NoHub})
    /\ nic \in (IF kind = "nic" THEN {NoNic, NicAt(FALSE, TRUE, TRUE, NoId)}
                ELSE {NoNic})
    /\ store = [n \in ObjNames |-> NoObj]
    /\ lock = [k \in LockKeys |-> None]
    /\ h = [p \in Procs |-> Idle]
    /\ created = {}
    /\ calls = 0

NextFair ==
    \/ NextLocks
    \/ \E p \in Procs :
          \/ CrudInvoke(p)
          \/ resourceExpressRouteGatewayCreateUpdate(p)
          \/ resourceExpressRouteGatewayRead(p)
          \/ resourceExpressRouteGatewayDelete(p)

FairSpec == InitFair /\ [][NextFair]_vars /\ Fairness

----------------------------------------------------------------------------
(* SQL failover group: the configuration blocks CreateUpdate expands into   *)
(* the properties it sends, and Read flattens back into the state.  A       *)
(* pointer or an optional map key is a sequence of at most one element.     *)

\* sql.Manual
Manual == "Manual"

\* the schema's blocks (part_000 lines 68-127): read_write_endpoint_failover_
\* policy is required, with a mode and an optional grace_minutes that d.Get
\* reads as 0 when omitted; readonly_endpoint_failover_policy is optional;
\* partner_servers is a list of ids
FailoverConfigs ==
    [rw : {<<[mode |-> m, grace_minutes |-> g]>> : m \in {"Automatic", Manual}, g \in {0, 60}},
     ro : {<<>>} \cup {<<[mode |-> m]>> : m \in {"Disabled", "Enabled"}},
     partner_servers : {<<[id |-> a]>> : a \in {"s1", "s2"}}
                       \cup {<<[id |-> a], [id |-> b]>> : a \in {"s1", "s2"}, b \in {"s1", "s2"}}]

\* part_000 lines 272-288
expandSqlFailoverGroupReadWritePolicy(c) ==
    LET v == c.rw[1]
        mode == v.mode
        graceMins == v.grace_minutes
    IN  << [FailoverPolicy |-> mode,
            FailoverWithDataLossGracePeriodMinutes |->
                IF mode # Manual THEN <<graceMins>> ELSE <<>>] >>

\* part_000 lines 290-303
flattenSqlFailoverGroupReadWritePolicy(input) ==
    IF input = <<>> THEN <<>>
    ELSE << [mode |-> input[1].FailoverPolicy,
             grace_minutes |-> input[1].FailoverWithDataLossGracePeriodMinutes] >>

\* part_000 lines 305-317
expandSqlFailoverGroupReadOnlyPolicy(c) ==
    IF Len(c.ro) = 0 THEN <<>> ELSE << [FailoverPolicy |-> c.ro[1].mode] >>

\* part_000 lines 319-328
flattenSqlFailoverGroupReadOnlyPolicy(input) ==
    IF input = <<>> THEN <<>> ELSE << [mode |-> input[1].FailoverPolicy] >>

\* part_000 lines 330-345
expandSqlFailoverGroupPartnerServers(c) ==
    << [i \in 1..Len(c.partner_servers) |->
          [ID |-> <<c.partner_servers[i].id>>, Location |-> <<>>,
           ReplicationRole |-> ""]] >>

\* part_000 lines 347-365
flattenSqlFailoverGroupPartnerServers(input) ==
    IF input = <<>> THEN <<>>
    ELSE [i \in 1..Len(input[1]) |->
            [id |-> input[1][i].ID, location |-> input[1][i].Location,
             role |-> input[1][i].ReplicationRole]]

\* the SDK calls CreateUpdate with a configuration
FailoverInvoke(p) ==
    /\ kind = "failoverFields" /\ h[p].pc = "idle" /\ calls < MaxCalls
    /\ calls' = calls + 1
    /\ \E c \in FailoverConfigs :
          h' = [h EXCEPT ![p] = Frame("CreateUpdate", "expand",
                  [id |-> NoId, isNew |-> TRUE, name |-> "r1", val |-> c])]
    /\ UNCHANGED <<kind, hub, nic, store, lock, created>>

\* part_000 lines 162-168: the properties CreateUpdate sends
FailoverExpand(p) ==
    LET f == h[p]
        properties == [ReadOnlyEndpoint |-> expandSqlFailoverGroupReadOnlyPolicy(f.d.val),
                       ReadWriteEndpoint |-> expandSqlFailoverGroupReadWritePolicy(f.d.val),
                       PartnerServers |-> expandSqlFailoverGroupPartnerServers(f.d.val)]
    IN
    /\ kind = "failoverFields" /\ f.pc = "expand"
    /\ h' = [h EXCEPT ![p] = [f EXCEPT !.pc = "flatten", !.resp = properties]]
    /\ UNCHANGED <<kind, hub, nic, store, lock, created, calls>>

\* part_000 lines 228-245: Read sets the blocks from the properties
FailoverFlatten(p) ==
    LET f == h[p]
        props == f.resp
        state == [rw |-> flattenSqlFailoverGroupReadWritePolicy(props.ReadWriteEndpoint),
                  ro |-> flattenSqlFailoverGroupReadOnlyPolicy(props.ReadOnlyEndpoint),
                  partner_servers |-> flattenSqlFailoverGroupPartnerServers(props.PartnerServers)]
    IN
    /\ kind = "failoverFields" /\ f.pc = "flatten"
    /\ h' = [h EXCEPT ![p] = [f EXCEPT !.pc = "done", !.res = "ok", !.d.val = state]]
    /\ UNCHANGED <<kind, hub, nic, store, lock, created, calls>>

InitFields ==
    /\ kind = "failoverFields"
    /\ hub = NoHub
    /\ nic = NoNic
    /\ store = [n \in ObjNames |-> NoObj]
    /\ lock = [k \in LockKeys |-> None]
    /\ h = [p \in Procs |-> Idle]
    /\ created = {}
    /\ calls = 0

NextFields ==
    \E p \in Procs :
        FailoverInvoke(p) \/ FailoverExpand(p) \/ FailoverFlatten(p) \/ Collect(p)

FieldsSpec == InitFields /\ [][NextFields]_vars

----------------------------------------------------------------------------
(* Automation variable values: what CreateUpdate sends for a configured     *)
(* value and what Read makes of what the service holds.  Texts are kept by  *)
(* their structure; an integer too wide for TLC is kept by its class:       *)
(* "int32" is the value v itself, "int64" is 3000000000 + v (beyond 32      *)
(* bits), "huge" is 10^19 + v (beyond 64 bits).                             *)

VarTypes == {"string", "int", "bool", "datetime", "null"}

Num(cls, v) == [cls |-> cls, v |-> v]
Zero == Num("int32", 0)
Fits(n, bits) == IF bits = 32 THEN n.cls = "int32" ELSE n.cls \in {"int32", "int64"}

\* a text: "quoted" is strconv.Quote(s); "dec" the decimal digits of n;
\* "date" is "\/Date(n)\/" in double quotes, "prefixedDate" the same after a
\* letter; "word" the bare characters s
Text(t, str, n) == [t |-> t, s |-> str, n |-> n]
BoolWords == {"1", "t", "T", "TRUE", "true", "True", "0", "f", "F", "FALSE", "false", "False"}
WireValues ==
    {Text("date", "", Num("int64", 1074)), Text("date", "", Num("int32", -5)),
     Text("date", "", Num("huge", 0)), Text("prefixedDate", "", Num("int64", 1074)),
     Text("quoted", "abc", Zero), Text("quoted", "5", Zero), Text("quoted", "true", Zero),
     Text("dec", "", Num("int32", 5)), Text("dec", "", Num("int32", 1)),
     Text("dec", "", Num("int32", -7)), Text("dec", "", Num("int64", 0)),
     Text("word", "true", Zero), Text("word", "F", Zero), Text("word", "abc", Zero),
     Text("word", "", Zero)}

\* an RFC 3339 time as written: the instant in milliseconds and the
\* nanoseconds beyond them, the zone, the fraction digits written
Rfc3339(ms, sub, zone, frac) == [ms |-> ms, sub |-> sub, zone |-> zone, frac |-> frac]
NotATime == Rfc3339(Zero, 0, "invalid", 0)

\* the values a configuration can hold for each type
ConfigValues(varType) ==
    CASE varType = "string" -> {<<"abc">>, <<"">>, <<"5">>, <<"true">>}
      [] varType = "int" -> {<<Num("int32", 5)>>, <<Num("int32", 1)>>,
                              <<Num("int32", -7)>>, <<Num("int64", 0)>>}
      [] varType = "bool" -> {<<TRUE>>, <<FALSE>>}
      [] varType = "datetime" ->
            {<<Rfc3339(Num("int64", 1074), 0, "Z", 3)>>,
             <<Rfc3339(Num("int64", 1000), 0, "Z", 0)>>,
             <<Rfc3339(Num("int64", 1100), 0, "Z", 3)>>,
             <<Rfc3339(Num("int64", 1074), 500000, "Z", 7)>>,
             <<Rfc3339(Num("int64", 1074), 0, "+02:00", 3)>>,
             <<NotATime>>}
      [] OTHER -> {<<>>}

\* lines 153-178: the Value CreateUpdate sends (none for the null type)
EncodeValue(varType, value) ==
    CASE varType = "datetime" -> <<Text("date", "", value[1].ms)>>
      [] varType = "bool" -> <<Text("word", IF value[1] THEN "true" ELSE "false", Zero)>>
      [] varType = "int" -> <<Text("dec", "", value[1])>>
      [] varType = "string" -> <<Text("quoted", value[1], Zero)>>
      [] OTHER -> <<>>

\* strconv.ParseBool
ParseBoolOk(w) ==
    \/ w.t = "word" /\ w.s \in BoolWords
    \/ w.t = "dec" /\ w.n \in {Num("int32", 0), Num("int32", 1)}

\* a variant that tries the boolean before the integer
ClassifyBoolFirst(w) ==
    IF w.t = "date"
    THEN IF Fits(w.n, 64) THEN "datetime" ELSE "Unknown"
    ELSE IF w.t = "quoted" THEN "string"
    ELSE IF ParseBoolOk(w) THEN "bool"
    ELSE IF w.t = "dec" /\ Fits(w.n, 32) THEN "int"
    ELSE "Unknown"

\* lines 30-47: actualResource for a value that is present
Classify(w) ==
    IF w.t = "date"
    THEN IF Fits(w.n, 64) THEN "datetime" ELSE "Unknown"
    ELSE IF w.t = "quoted" THEN "string"
    ELSE IF w.t = "dec" /\ Fits(w.n, 32) THEN "int"
    ELSE IF ParseBoolOk(w) THEN "bool"
    ELSE "Unknown"

\* lines 36-46: the value decoded for the type found
Decoded(w) ==
    CASE Classify(w) = "datetime" -> <<[ms |-> w.n]>>
      [] Classify(w) = "string" -> <<w.s>>
      [] Classify(w) = "int" -> <<w.n>>
      [] Classify(w) = "bool" -> <<w.s \in {"1", "t", "T", "TRUE", "true", "True"}
                                   \/ (w.t = "dec" /\ w.n = Num("int32", 1))>>
      [] OTHER -> <<>>

\* lines 22-54
ParseAzureAutomationVariableValue(resource, input) ==
    IF input = <<>>
    THEN [err |-> resource # "null", value |-> <<>>]
    ELSE IF Classify(input[1]) # resource
    THEN [err |-> TRUE, value |-> <<>>]
    ELSE [err |-> FALSE, value |-> Decoded(input[1])]

\* time.Time.Format("2006-01-02T15:04:05.999Z") of a UTC time: at most three
\* fraction digits, trailing zeros dropped, a literal Z
FormatTime(t) ==
    LET m == t.ms.v % 1000
        frac == IF m = 0 THEN 0 ELSE IF m % 100 = 0 THEN 1 ELSE IF m % 10 = 0 THEN 2 ELSE 3
    IN  Rfc3339(t.ms, 0, "Z", frac)

\* the SDK calls CreateUpdate with a configured value, or Read for a
\* variable whose value the service holds
ValueInvoke(p) ==
    /\ kind = "autovarValue" /\ h[p].pc = "idle" /\ calls < MaxCalls
    /\ calls' = calls + 1
    /\ \E varType \in VarTypes :
          \/ \E c \in ConfigValues(varType) :
                h' = [h EXCEPT ![p] = Frame("CreateUpdate", "encode",
                        [id |-> NoId, isNew |-> TRUE, name |-> varType, val |-> c])]
          \/ \E w \in {<<x>> : x \in WireValues} \cup {<<>>} :
                h' = [h EXCEPT ![p] = [Frame("Read", "decode",
                        [id |-> NoId, isNew |-> FALSE, name |-> varType, val |-> <<>>])
                            EXCEPT !.resp = w]]
    /\ UNCHANGED <<kind, hub, nic, store, lock, created>>

\* lines 150-178: the value is encoded and sent
ValueEncode(p) ==
    LET f == h[p] IN
    /\ kind = "autovarValue" /\ f.pc = "encode"
    /\ IF f.d.name = "datetime" /\ f.d.val[1] = NotATime
       THEN Return(p, f, "errTime")
       ELSE Goto(p, [f EXCEPT !.resp = EncodeValue(f.d.name, f.d.val), !.puts = @ + 1],
                 "decode") /\ UNCHANGED lock
    /\ UNCHANGED <<kind, hub, nic, store, created, calls>>

\* lines 224-239: Read decodes the value and sets it
ValueRead(p) ==
    LET f == h[p]
        parsed == ParseAzureAutomationVariableValue(f.d.name, f.resp)
        set == IF f.d.name = "datetime" THEN <<FormatTime(parsed.value[1])>>
               ELSE IF f.d.name # "null" THEN parsed.value
               ELSE <<>>
    IN
    /\ kind = "autovarValue" /\ f.pc = "decode"
    /\ IF parsed.err
       THEN Return(p, f, "errType")
       ELSE Return(p, [f EXCEPT !.d.val = set], "ok")
    /\ UNCHANGED <<kind, hub, nic, store, created, calls>>

InitValue ==
    /\ kind = "autovarValue"
    /\ hub = NoHub
    /\ nic = NoNic
    /\ store = [n \in ObjNames |-> NoObj]
    /\ lock = [k \in LockKeys |-> None]
    /\ h = [p \in Procs |-> Idle]
    /\ created = {}
    /\ calls = 0

NextValue ==
    \E p \in Procs : ValueInvoke(p) \/ ValueEncode(p) \/ ValueRead(p) \/ Collect(p)

ValueSpec == InitValue /\ [][NextValue]_vars

----------------------------------------------------------------------------
(* Properties of the handlers that lock a parent *)

Running(p) == h[p].pc \notin {"idle", "done"}
Done(p, op) == h[p].pc = "done" /\ h[p].op = op

\* the read-modify-write section: from the Get of the parent to the end of
\* the wait (and the trailing Read, still under the deferred unlock)
InSection(p) ==
    /\ kind \in {"iothub", "nic"}
    /\ h[p].op \in {"CreateUpdate", "Create", "Delete"}
    /\ h[p].pc \in {"get", "put", "wait", "read"}

\* C1: when two Create calls for endpoints of distinct names on the same hub
\* have both returned success (and no Delete has removed either since), the
\* hub's ServiceBusQueues list contains both endpoints.
C1_NoLostUpdate ==
    \A p, q \in Procs :
        (/\ kind = "iothub" /\ p # q
         /\ Done(p, "CreateUpdate") /\ Done(q, "CreateUpdate")
         /\ h[p].d0.isNew /\ h[q].d0.isNew
         /\ h[p].res = "ok" /\ h[q].res = "ok"
         /\ ~EqualFold(h[p].d0.name, h[q].d0.name)
         /\ {Lower(h[p].d0.name), Lower(h[q].d0.name)} \subseteq created)
        => {Lower(h[p].d0.name), Lower(h[q].d0.name)} \subseteq LowerNames(hub.queues)

\* C2: the read-modify-write sections of two handlers on the same parent (the
\* IoT Hub; the network interface) never overlap, and no lock key has two
\* holders.
C2_MutualExclusion ==
    /\ \A p, q \in Procs : (p # q /\ InSection(p)) => ~InSection(q)
    /\ \A k \in LockKeys :
         Cardinality({p \in Procs : k \in Range(h[p].held)}) <= 1

C2_Witness ==
    \E p, q \in Procs :
        /\ p # q /\ kind = "iothub"
        /\ h[p].op = "CreateUpdate" /\ h[p].pc = "wait"
        /\ h[q].op = "Delete" /\ h[q].pc = "lock" /\ ParseOk(h[q].d.id)

\* C3: a lock is held only by a running handler that acquired it, a handler
\* that has returned holds none, and every lock a running handler acquired is
\* still its own (nobody else released it).
C3_LocksReleased ==
    /\ \A k \in LockKeys :
         lock[k] # None => (Running(lock[k]) /\ k \in Range(h[lock[k]].held))
    /\ \A p \in Procs : \A k \in Range(h[p].held) : lock[k] = p

\* the second ID-parse error of the association Create: the interface lock was
\* taken, the handler has returned, every lock is free
C3_Witness ==
    \E p \in Procs :
        /\ kind = "nic" /\ Done(p, "Create") /\ h[p].res = "errParse"
        /\ ParseOk(h[p].d.name)
        /\ \A k \in LockKeys : lock[k] = None

\* C4: an association Create that fetched an interface referencing any
\* security group returns already-exists and issues no CreateOrUpdate; at most
\* one Create has succeeded since the reference was last cleared, and the
\* interface references that Create's group.
C4_NeverReplaces ==
    /\ \A p \in Procs :
         (kind = "nic" /\ Done(p, "Create") /\ h[p].read.exists
            /\ ~h[p].read.propsNil /\ ~h[p].read.nsgNil)
         => (h[p].res = "errExists" /\ h[p].puts = 0)
    /\ kind = "nic" =>
         /\ Cardinality(created) <= 1
         /\ created # {} => (~nic.nsgNil /\ nic.nsgId \in created)

\* one Create succeeded, a concurrent one for another group was refused
C4_Witness ==
    \E p, q \in Procs :
        /\ kind = "nic" /\ Done(p, "Create") /\ Done(q, "Create")
        /\ h[p].res = "ok" /\ h[q].res = "errExists"
        /\ h[p].d0.val # h[q].d0.val
        /\ nic.nsgId = h[p].d0.val

\* C9: a Read of an endpoint whose hub is gone, or whose hub lists no endpoint
\* of that name, returns no error and clears the ID.
C9_ReadNotFoundClearsId ==
    \A p \in Procs :
        (kind = "iothub" /\ Done(p, "Read") /\ ParseOk(h[p].d0.id)
           /\ \/ h[p].res = "errNotFound"
              \/ /\ h[p].res = "ok"
                 /\ ~HasEndpoint(h[p].iothub.queues, PathOf(h[p].d0.id, "Endpoints")))
        => (h[p].res = "ok" /\ h[p].d.id = NoId)

----------------------------------------------------------------------------
(* Properties of the stand-alone handlers *)

CheckedKinds == Kinds \ {"dashboard"}

\* C5: a create whose existence check got an existing object returns
\* already-exists, has issued no write and leaves the ID unset; an update
\* reaches its write without any Get.
C5_ExistenceCheck ==
    \A p \in Procs :
        /\ (kind \in CheckedKinds /\ Done(p, CreateOp(kind)) /\ h[p].d0.isNew
              /\ h[p].resp.exists)
           => (h[p].res = "errExists" /\ h[p].puts = 0 /\ h[p].dels = 0
                 /\ h[p].d.id = NoId)
        /\ (kind \in CheckedKinds \ {"storagesync"} /\ h[p].op = "CreateUpdate"
              /\ ~h[p].d0.isNew /\ h[p].pc = "put")
           => (h[p].gets = 0 /\ ~h[p].resp.exists)

\* a create refused for an object that is still there, untouched
C5_Witness ==
    \E p \in Procs :
        /\ kind = "autovar" /\ Done(p, "CreateUpdate") /\ h[p].d0.isNew
        /\ h[p].res = "errExists"
        /\ store[h[p].d0.name] = Obj(kind, h[p].d0.name, InitConn)

\* an update at its write, the existence check skipped
C5_WitnessUpdate ==
    \E p \in Procs :
        /\ kind = "sqlfw" /\ h[p].op = "CreateUpdate" /\ ~h[p].d0.isNew
        /\ h[p].pc = "put" /\ store[h[p].d0.name].exists

SameRule(p, q) ==
    /\ p # q /\ kind = "sqlfw"
    /\ h[p].op = "CreateUpdate" /\ h[p].d0.isNew
    /\ h[q].op = "CreateUpdate" /\ h[q].d0.isNew
    /\ h[p].d0.name = h[q].d0.name

\* C6 as claimed: of two concurrent Creates of the same SQL firewall rule at
\* most one issues CreateOrUpdate.
C6_AtMostOneWrites ==
    \A p, q \in Procs : SameRule(p, q) => ~(h[p].puts >= 1 /\ h[q].puts >= 1)

\* C6 amended: a Create whose existence check runs once the other Create's
\* CreateOrUpdate has taken effect (the rule is there) issues no
\* CreateOrUpdate and returns an error (already-exists, unless the Get fails).
C6_CheckAfterWriteRefused ==
    [][\A p, q \in Procs :
          (/\ SameRule(p, q) /\ h[p].pc = "check" /\ h[q].puts >= 1
           /\ store[h[p].d0.name].exists /\ h'[p].pc # "check")
          => (h'[p].pc = "done" /\ h'[p].res \in {"errExists", "err"}
                /\ h'[p].puts = 0)]_vars

\* one Create wrote the rule, the other one's check came later and was refused
C6_Witness ==
    \E p, q \in Procs :
        /\ SameRule(p, q) /\ h[q].puts = 1 /\ h[q].pc = "refetch"
        /\ Done(p, "CreateUpdate") /\ h[p].res = "errExists"
        /\ h[q].resp = NoObj

\* C7: a Dashboard Create for a name that exists remotely is refused and
\* leaves the remote dashboard as it is.
C7_DashboardExists ==
    [][\A p \in Procs :
          (/\ kind = "dashboard" /\ h[p].op = "CreateUpdate" /\ h[p].d0.isNew
           /\ h[p].pc = "put" /\ h[p].d0.val # BadJson
           /\ store[h[p].d0.name].exists /\ h'[p].pc # "put")
          => (store' = store /\ h'[p].pc = "done"
                /\ h'[p].res \in {"errExists", "err"})]_vars

\* C8: a Read whose Get answers not found returns no error, clears the ID
\* and changes no other field (the stand-alone resources and the NIC/NSG
\* association).
C8_ReadNotFound ==
    \A p \in Procs :
        (kind \in Kinds \cup {"nic"} /\ Done(p, "Read") /\ h[p].saw = "notfound")
        => (h[p].res = "ok" /\ h[p].d = [h[p].d0 EXCEPT !.id = NoId])

C8_Witness ==
    \E p \in Procs :
        /\ kind = "devtest" /\ Done(p, "Read") /\ h[p].saw = "notfound"
        /\ h[p].d0.id = ObjId(kind, "r1") /\ h[p].d.id = NoId

C8_WitnessNic ==
    \E p \in Procs :
        /\ kind = "nic" /\ Done(p, "Read") /\ h[p].saw = "notfound"
        /\ h[p].d0.id # NoId /\ h[p].d.id = NoId

TolerantKinds == {"sqlfw", "dataset", "dashboard", "expressroute"}

\* C10: a Delete of a SQL firewall rule, Data Factory dataset, Dashboard or
\* ExpressRoute gateway whose delete call (or, for ExpressRoute, the wait)
\* answers not found returns no error; any other error is returned.
C10_DeleteNotFound ==
    \A p \in Procs :
        (kind \in TolerantKinds /\ Done(p, "Delete"))
        => /\ h[p].saw = "notfound" => h[p].res = "ok"
           /\ h[p].saw = "error" => h[p].res = "err"

C10_Witness ==
    \E p \in Procs :
        /\ kind = "sqlfw" /\ Done(p, "Delete") /\ h[p].saw = "notfound"
        /\ h[p].res = "ok" /\ h[p].dels = 1

\* the ExpressRoute wait answering not found
C10_WitnessWait ==
    \E p \in Procs :
        /\ kind = "expressroute" /\ Done(p, "Delete") /\ h[p].saw = "notfound"
        /\ h[p].res = "ok" /\ h[p].dels = 1 /\ ~store[h[p].d0.name].exists

StrictKinds == {"storagesync", "failover", "autovar"}

\* C11: a Delete of a Storage Sync, SQL failover group or Automation
\* variable whose remote object is absent and whose delete call (or the wait
\* on it) answers not found returns no error.
C11_StrictDeleteNotFound ==
    \A p \in Procs :
        (/\ kind \in StrictKinds /\ Done(p, "Delete") /\ h[p].saw = "notfound"
         /\ ~store[h[p].d0.name].exists)
        => h[p].res = "ok"

\* C12: a Delete of an IoT Hub endpoint whose hub is gone, or of a NIC/NSG
\* association whose network interface is gone, returns no error (unless the
\* Get fails otherwise) and writes nothing to the parent.
C12_ParentGone ==
    \A p \in Procs :
        /\ (kind = "iothub" /\ Done(p, "Delete") /\ ParseOk(h[p].d0.id) /\ ~hub.exists)
           => (h[p].res \in {"ok", "err"} /\ h[p].puts = 0)
        /\ (kind = "nic" /\ Done(p, "Delete") /\ SplitCount(h[p].d0.id) = 2
              /\ ParseOk(SplitFirst(h[p].d0.id)) /\ ~nic.exists)
           => (h[p].res \in {"ok", "err"} /\ h[p].puts = 0)

\* C13: every data-source Read (container registry token, monitor action
\* group, subscription, key vault certificate, automation variable) answers
\* a not-found response of its Get with no error.
C13_DataSourceNotFound ==
    \A p \in Procs :
        (kind \in DataKinds /\ Done(p, "DataRead") /\ h[p].saw = "notfound")
        => h[p].res = "ok"

\* the handler had set the ID (its write succeeded) before the call that
\* failed: its trailing Read
TrailingReadFailed(p) ==
    /\ h[p].op \in {"Create", "CreateUpdate"}
    /\ h[p].puts = 1 /\ h[p].d.id # NoId

\* C14 as claimed: a remote call that fails with an error other than
\* not-found makes the handler return the error at once, with no call issued
\* twice, and with the ID it had at the invocation.
C14_ErrorLeavesId ==
    \A p \in Procs :
        h[p].saw = "error"
        => (h[p].pc = "done" /\ h[p].res = "err" /\ h[p].puts <= 1
              /\ h[p].dels <= 1 /\ h[p].d.id = h[p].d0.id)

\* C14 amended: the same, except that a create or create/update whose
\* trailing Read fails returns the error with the ID the handler had set.
C14_ErrorSurfaced ==
    \A p \in Procs :
        h[p].saw = "error"
        => (h[p].pc = "done" /\ h[p].res = "err" /\ h[p].puts <= 1
              /\ h[p].dels <= 1
              /\ (h[p].d.id = h[p].d0.id \/ TrailingReadFailed(p)))

\* the wait on a failover group's create failed: error, ID unset
C14_Witness ==
    \E p \in Procs :
        /\ kind = "failover" /\ Done(p, "CreateUpdate") /\ h[p].d0.isNew
        /\ h[p].saw = "error" /\ h[p].puts = 1 /\ h[p].gets = 1
        /\ h[p].res = "err" /\ h[p].d.id = NoId

LroKinds == {"storagesync", "expressroute", "failover"}

LroCreate(p) ==
    kind \in LroKinds /\ h[p].op = CreateOp(kind) /\ h[p].d0.isNew

\* the order of a create's steps, and the returns that leave it early
CreateOrder ==
    {<<"idle", "check">>, <<"check", "put">>, <<"put", "wait">>,
     <<"wait", "refetch">>, <<"refetch", "read">>, <<"read", "done">>}
EarlyReturn == {<<pc, "done">> : pc \in {"check", "put", "wait", "refetch"}}

C15_WitnessWait ==
    \E p \in Procs :
        /\ kind = "storagesync" /\ Done(p, "Create") /\ h[p].saw = "error"
        /\ h[p].puts = 1 /\ h[p].gets = 1 /\ h[p].d.id = NoId

\* C16: under FairSpec every handler invocation comes to its end; a handler
\* waiting for a named lock is such an invocation, so it gets the lock and
\* goes on to its end.
C16_RunsToCompletion ==
    \A p \in Procs : Running(p) ~> (h[p].pc = "done")

\* a Create waits for the hub's lock while a Delete holds it
C16_Witness ==
    \E p, q \in Procs :
        /\ p # q /\ kind = "iothub"
        /\ h[p].op = "CreateUpdate" /\ h[p].pc = "lock"
        /\ h[q].op = "Delete" /\ h[q].pc = "put"
        /\ lock[HubKey] = q

\* C17: when a resource's Read handler has returned, the ID is the one it
\* had at the call, or empty.
C17_ReadKeepsId ==
    \A p \in Procs :
        (kind \in Kinds \cup {"iothub", "nic"} /\ Done(p, "Read"))
        => h[p].d.id \in {h[p].d0.id, NoId}

\* a Read of endpoint "A" matched the hub's endpoint "a" (the names differ in
\* case only) and kept the ID
C17_Witness ==
    \E p \in Procs :
        /\ kind = "iothub" /\ Done(p, "Read") /\ h[p].res = "ok"
        /\ h[p].d0.id = EndpointId(HubId, "A") /\ h[p].d.id = h[p].d0.id
        /\ h[p].iothub.exists /\ h[p].iothub.level = 3 /\ ~h[p].iothub.queuesNil
        /\ "a" \in Names(h[p].iothub.queues)

\* C18: a successful Update (of a resource that is still there) leaves the
\* ID as it was before the call, and the name it wrote under is the one in
\* the ID: no second remote object appears under another name.
C18_UpdateKeepsId ==
    \A p \in Procs :
        (kind \in Kinds /\ Done(p, UpdateOp(kind)) /\ ~h[p].d0.isNew
           /\ h[p].res = "ok" /\ h[p].saw = "found" /\ h[p].puts = 1)
        => /\ h[p].d.id = h[p].d0.id
           /\ h[p].d0.name = PathOf(h[p].d0.id, TypeKey(kind))

C19_WitnessNic ==
    \E p, q \in Procs :
        /\ kind = "nic" /\ Done(p, "Create") /\ h[p].res = "ok"
        /\ h[q].op = "Delete" /\ h[q].d0.id = h[p].d.id /\ h[q].held = <<NicKey>>

\* what d.Get reads of a key d.Set was given, or not given: the zero value
GetInt(v) == IF v = <<>> THEN 0 ELSE v[1]
GetString(v) == IF v = <<>> THEN "" ELSE v[1]

\* C20: what Read flattens from the properties CreateUpdate expanded is the
\* configuration: the read-write policy's mode and grace_minutes, the
\* read-only policy (or its absence) and the partner servers' ids in order.
C20_FlattenExpand ==
    \A p \in Procs :
        (kind = "failoverFields" /\ Done(p, "CreateUpdate"))
        => LET c == h[p].d0.val
               state == h[p].d.val
           IN  /\ Len(state.rw) = 1
               /\ state.rw[1].mode = c.rw[1].mode
               /\ GetInt(state.rw[1].grace_minutes) = c.rw[1].grace_minutes
               /\ state.ro = c.ro
               /\ Len(state.partner_servers) = Len(c.partner_servers)
               /\ \A i \in 1..Len(c.partner_servers) :
                     GetString(state.partner_servers[i].id) = c.partner_servers[i].id

\* the ServiceBusQueues list a hub object holds, empty when it holds none
PresentQueues(iothub) ==
    IF iothub.level = 3 /\ ~iothub.queuesNil THEN iothub.queues ELSE <<>>

\* C22: the list a successful CreateUpdate for endpoint E sends keeps every
\* other endpoint of the fetched hub unchanged and in order, with E appended
\* on create and replaced in place on update, and nothing else of the hub
\* is modified.
C22_OnlyNamedEndpoint ==
    [][\A p \in Procs :
         (kind = "iothub" /\ h[p].op = "CreateUpdate" /\ h[p].pc = "put"
            /\ h'[p].pc = "wait")
         => LET f == h[p]
                E == f.d.name
                before == PresentQueues(f.iothub)
                after == PresentQueues(hub')
            IN  /\ RemoveEndpoint(after, E) = RemoveEndpoint(before, E)
                /\ IF f.d.isNew
                   THEN after = Append(before, Ep(E, f.d.val))
                   ELSE /\ Len(after) = Len(before)
                        /\ \A i \in 1..Len(before) :
                              after[i] = IF EqualFold(before[i].name, E)
                                         THEN Ep(E, f.d.val) ELSE before[i]
                /\ hub'.eventHubs = f.iothub.eventHubs]_vars

\* C23: a create on a hub whose routing, routing endpoints or
\* ServiceBusQueues list is absent writes a list holding exactly the new
\* endpoint, whether or not EventHubs is present, and a create on a hub that
\* has a ServiceBusQueues list keeps that list.
C23_MissingListIsEmpty ==
    [][\A p \in Procs :
         (kind = "iothub" /\ h[p].op = "CreateUpdate" /\ h[p].d.isNew
            /\ h[p].pc = "put" /\ h'[p].pc # "put" /\ h'[p].saw # "error"
            /\ h[p].iothub.level >= 1 /\ hub.exists)
         => LET f == h[p]
                E == f.d.name
                absent == f.iothub.level < 3 \/ f.iothub.queuesNil
            IN  /\ absent
                   => /\ h'[p].pc = "wait"
                      /\ PresentQueues(hub') = <<Ep(E, f.d.val)>>
                /\ (~absent /\ ~HasEndpoint(f.iothub.queues, E))
                   => /\ h'[p].pc = "wait"
                      /\ PresentQueues(hub') = Append(f.iothub.queues, Ep(E, f.d.val))]_vars

C24_WitnessAgain ==
    \E p \in Procs :
        /\ kind = "iothub" /\ Done(p, "Delete") /\ h[p].res = "ok"
        /\ h[p].puts = 1 /\ h[p].iothub.queues # <<>>
        /\ ~HasEndpoint(h[p].iothub.queues, PathOf(h[p].d0.id, "Endpoints"))
        /\ hub.queues = h[p].iothub.queues

\* C25: the names of the hub's ServiceBus-queue endpoints stay pairwise
\* distinct ignoring case, whatever handlers ran and however they interleaved.
C25_UniqueNames ==
    (kind = "iothub" /\ hub.exists)
    => \A i, j \in 1..Len(PresentQueues(hub)) :
          i # j => ~EqualFold(hub.queues[i].name, hub.queues[j].name)

\* two handlers each created an endpoint and the hub holds both
C25_Witness ==
    /\ kind = "iothub" /\ hub.exists /\ Len(PresentQueues(hub)) = 2
    /\ \A p \in Procs :
          Done(p, "CreateUpdate") /\ h[p].d0.isNew /\ h[p].res = "ok"

\* C26: a create for a name the fetched hub already holds (ignoring case)
\* returns the already-exists error and an update for a name it does not
\* hold returns the unable-to-find error, in both cases with no write, the
\* hub unchanged and the ID as it was.
C26_PreconditionErrors ==
    [][\A p \in Procs :
         LET f == h[p]
             onHub == HasEndpoint(PresentQueues(f.iothub), f.d.name)
         IN
         (kind = "iothub" /\ f.op = "CreateUpdate" /\ f.pc = "put"
            /\ h'[p].pc # "put" /\ (f.d.isNew <=> onHub))
         => /\ h'[p].pc = "done"
            /\ h'[p].res = IF f.d.isNew THEN "errExists" ELSE "errUnableToFind"
            /\ h'[p].puts = 0
            /\ hub' = hub
            /\ h'[p].d.id = f.d0.id]_vars

\* C27: once an association Delete has written the interface, the interface
\* references no security group, whichever group (or none) it referenced
\* when fetched, and is otherwise as fetched.
C27_DeleteClearsReference ==
    \A p \in Procs :
        (kind = "nic" /\ h[p].op = "Delete" /\ h[p].pc = "wait")
        => /\ nic = [h[p].read EXCEPT !.nsgNil = TRUE, !.nsgIdNil = TRUE, !.nsgId = NoId]
           /\ nic.exists /\ ~nic.propsNil

\* the Delete of the association with g1 cleared an interface that
\* referenced g2
C27_Witness ==
    \E p \in Procs :
        /\ kind = "nic" /\ h[p].op = "Delete" /\ h[p].pc = "wait"
        /\ h[p].d0.id = AssociationId(NicId, NsgId("g1"))
        /\ ~h[p].read.nsgNil /\ h[p].read.nsgId = NsgId("g2")
        /\ nic.nsgNil

\* the Delete wrote an interface that referenced no group
C27_WitnessNone ==
    \E p \in Procs :
        /\ kind = "nic" /\ h[p].op = "Delete" /\ h[p].pc = "wait"
        /\ h[p].read.nsgNil /\ nic.nsgNil

\* the key a handler at a locks.ByName call asks for
Wanted(p) ==
    LET f == h[p] IN
    CASE kind = "iothub" /\ f.op = "CreateUpdate" -> HubKey
      [] kind = "iothub" /\ f.op = "Delete" ->
            <<PathOf(f.d.id, "IotHubs"), IothubResourceName>>
      [] kind = "nic" /\ f.op = "Create" /\ f.pc = "lock" ->
            <<PathOf(f.d.name, "networkInterfaces"), networkInterfaceResourceName>>
      [] kind = "nic" /\ f.op = "Create" /\ f.pc = "lock2" ->
            <<PathOf(f.d.val, "networkSecurityGroups"), networkSecurityGroupResourceName>>
      [] OTHER ->
            <<PathOf(SplitFirst(f.d.id), "networkInterfaces"), networkInterfaceResourceName>>

\* p is at a locks.ByName call whose mutex q holds
WaitsFor(p, q) ==
    /\ kind \in {"iothub", "nic"} /\ h[p].pc \in {"lock", "lock2"}
    /\ Wanted(p) \in LockKeys /\ lock[Wanted(p)] = q

C29_DevTestDeleteAbsent ==
    \A p \in Procs :
        (kind = "devtest" /\ Done(p, "Delete") /\ h[p].saw = "notfound")
        => /\ h[p].res = "ok"
           /\ h[p].resp = NoObj => h[p].dels = 0

\* C21: Read sets the value CreateUpdate was configured with, for every
\* value CreateUpdate accepts; for the null type nothing is sent and Read
\* sets no value, without error.
C21_ValueRoundTrip ==
    \A p \in Procs :
        (kind = "autovarValue" /\ Done(p, "CreateUpdate") /\ h[p].res # "errTime")
        => /\ h[p].res = "ok"
           /\ h[p].d.val = h[p].d0.val

\* the type of a wire value by the fixed precedence; anyDate: every date
\* literal counts as a datetime, whatever its integer
TypeByPrecedence(input, anyDate) ==
    IF input = <<>> THEN "null"
    ELSE LET w == input[1] IN
         IF w.t = "date" /\ (anyDate \/ w.n.cls # "huge") THEN "datetime"
         ELSE IF w.t = "date" THEN "Unknown"
         ELSE IF w.t = "quoted" THEN "string"
         ELSE IF w.t = "dec" /\ w.n.cls = "int32" THEN "int"
         ELSE IF (w.t = "word" /\ w.s \in BoolWords) \/ (w.t = "dec" /\ w.n.cls = "int32" /\ w.n.v \in {0, 1})
         THEN "bool"
         ELSE "Unknown"

\* Read returned the value of a wire value of the expected type, and an
\* error for any other
DecodesByType(p, anyDate) ==
    (kind = "autovarValue" /\ Done(p, "Read"))
    => /\ h[p].res = "ok" <=> TypeByPrecedence(h[p].resp, anyDate) = h[p].d.name
       /\ h[p].res # "ok" => h[p].res = "errType" /\ h[p].d.val = <<>>
       /\ h[p].res = "ok"
          => h[p].d.val =
               CASE h[p].d.name = "null" -> <<>>
                 [] h[p].d.name = "string" -> <<h[p].resp[1].s>>
                 [] h[p].d.name = "int" -> <<h[p].resp[1].n>>
                 [] h[p].d.name = "bool" ->
                      <<h[p].resp[1].s \in {"true", "T"} \/ h[p].resp[1].n.v = 1>>
                 [] OTHER -> <<FormatTime([ms |-> h[p].resp[1].n])>>

\* C30 as claimed: every wire value has one type by the precedence absent,
\* date literal, string literal, 32-bit integer, boolean literal, Unknown;
\* the value is returned iff that type is the expected one.
C30_Classifies == \A p \in Procs : DecodesByType(p, TRUE)

\* C30 amended: the same, a date literal being a datetime only when its
\* integer fits 64 bits, and Unknown otherwise.
C30_ClassifiesDates64 == \A p \in Procs : DecodesByType(p, FALSE)

\* the wire value 1, an integer and a boolean literal, was read as an int
C30_Witness ==
    \E p \in Procs :
        /\ kind = "autovarValue" /\ Done(p, "Read") /\ h[p].d.name = "int"
        /\ h[p].resp = <<Text("dec", "", Num("int32", 1))>>
        /\ h[p].res = "ok" /\ h[p].d.val = <<Num("int32", 1)>>

\* a date literal whose integer does not fit 64 bits was refused
C30_WitnessDate ==
    \E p \in Procs :
        /\ kind = "autovarValue" /\ Done(p, "Read") /\ h[p].d.name = "datetime"
        /\ h[p].resp = <<Text("date", "", Num("huge", 0))>>
        /\ h[p].res = "errType"

====
